---- MODULE Spec2Model ----
(***************************************************************************)
(* Model of the Catppuccinifier bot: the LUT cache and LUT builder of      *)
(* image_processing.rs, the pixel mapper, the message handler of main.rs   *)
(* with its processing semaphore, and the message handler of commands.rs.  *)
(***************************************************************************)
EXTENDS Integers, Sequences, FiniteSets, TLC

\* ------------------------------------------------------------------------
\* Bounds of the model
\* ------------------------------------------------------------------------
NumHandlers == 2
\* handler invocations of the fair gate specification: one holder of the
\* permit and two suspended acquirers
NumGateHandlers == 3

\* ------------------------------------------------------------------------
\* Program constants
\* ------------------------------------------------------------------------
SemaphoreCapacity_Two == 2

\* main.rs:181  Semaphore::new(1)
SemaphoreCapacity == 1
\* main.rs:1388-1393  the four flavors processed by "!cat all"
NumFlavors == 4

VARIABLES
    permits,    \* main.rs PROCESSING_SEMAPHORE: permits available
    waiters,    \* main.rs PROCESSING_SEMAPHORE: FIFO queue of suspended acquirers
    mpc,        \* main.rs Handler::message: position of each handler invocation
    mjob,       \* main.rs Handler::message: the parsed command of each invocation
    mlog,       \* main.rs Handler::message: pipeline stages each invocation has run
    mctx,       \* main.rs Handler::message: locals (notice sent, flavor index, attachments, exit)
    lutCache,   \* image_processing.rs LUT_CACHE: the map from key to LUT
    gpc,        \* generate_catppuccin_lut: position of each call
    gkey,       \* generate_catppuccin_lut: (flavor, algorithm) of each call
    glut,       \* generate_catppuccin_lut: the LUT each call has built or returned
    builds,     \* number of times the build loop has run, per key
    lutCall,    \* one computation of a LUT entry: input and result
    applyCall,  \* one call of apply_lut_to_image: image, LUT and result
    cmdJob,     \* commands.rs Handler::message: each user's image job
    cmdCancel,  \* commands.rs Handler::message: each user's `!cat cancel` message
    gifCall,    \* one call of process_gif_with_palette: input, locals and result
    cmpCall,    \* one call of create_comparison_image: the two images and the result
    previewCall, \* one call of generate_all_palettes_preview: the result and a pixel of it
    argReq,     \* commands.rs Handler::message: the message being handled and its selections
    argCount,   \* number of messages and button presses handled so far
    confirmMap, \* commands.rs COLOR_CONFIRM_MAP: (user, channel) -> (flavor, algorithm)
    confirmPress, \* commands.rs interaction_create: the press holding the lock of the map
    confirmStat, \* per (user, channel): stats messages stored, button presses, images sent
    parseCall,  \* one call of utils.rs parse_algorithm: input and result
    sanitizeCall, \* one call of utils.rs sanitize_filename: inputs and result
    qNextId,    \* main.rs TaskQueue.next_id
    qChan,      \* main.rs TaskQueue: the tasks sent on the mpsc channel, not yet received
    qQueue,     \* main.rs TaskQueue processor: the local Vec `queue`
    qProcessing, \* main.rs TaskQueue processor: the local flag `processing`
    qSleep,     \* main.rs TaskQueue processor: time left on the 100 ms sleep of the select
    qRunning,   \* main.rs process_task: the spawned tasks still running, with time left
    qLen,       \* main.rs TaskQueue.queue_length
    qPc,        \* main.rs TaskQueue processor: in the select, or where in a branch
    qHeld,      \* main.rs TaskQueue processor: the local `task` of the branch it is in
    qCaller     \* main.rs TaskQueue::enqueue: position, id and task of each caller

mainVars == <<permits, waiters, mpc, mjob, mlog, mctx>>

cacheVars == <<lutCache, gpc, gkey, glut, builds>>

utilVars == <<parseCall, sanitizeCall, confirmStat>>

queueVars == <<qNextId, qChan, qQueue, qProcessing, qSleep, qRunning, qLen, qPc, qHeld,
              qCaller>>

extraVars == <<utilVars, queueVars>>

pureVars == <<lutCall, applyCall, gifCall, cmpCall, previewCall, argReq, argCount, confirmMap,
              confirmPress, extraVars>>

argVars == <<argReq, argCount, confirmMap, confirmPress>>

imageVars == <<cmpCall, previewCall>>

cmdVars == <<cmdJob, cmdCancel>>

vars == <<permits, waiters, mpc, mjob, mlog, mctx,
          lutCache, gpc, gkey, glut, builds, lutCall, applyCall,
          cmdJob, cmdCancel, gifCall, cmpCall, previewCall,
          argReq, argCount, confirmMap, confirmPress, confirmStat, parseCall, sanitizeCall,
          qNextId, qChan, qQueue, qProcessing, qSleep, qRunning, qLen, qPc, qHeld, qCaller>>

Handlers == 1..NumHandlers
\* the invocations that exist; those outside Handlers receive messages only
\* in the gate specification
GateHandlers == 1..NumGateHandlers

\* ------------------------------------------------------------------------
\* image_processing.rs: the palette and the colour space
\* ------------------------------------------------------------------------
Flavors == {"latte", "frappe", "macchiato", "mocha"}

NearestAlgorithms == {"linear-rbf", "nearest-neighbor", "euclide"}

\* 256 * 256 * 256 * 3 (image_processing.rs:46)
LutLen == 50331648

\* catppuccin_colors (image_processing.rs:23-39): the 26 colours of each
\* flavor of catppuccin::PALETTE, in the order of the array.
PaletteRgb ==
    [ latte |-> <<
          <<220, 138, 120>>, <<221, 120, 120>>, <<234, 118, 203>>, <<136, 57, 239>>,
          <<210, 15, 57>>, <<230, 69, 83>>, <<254, 100, 11>>, <<223, 142, 29>>,
          <<64, 160, 43>>, <<23, 146, 153>>, <<4, 165, 229>>, <<32, 159, 181>>,
          <<30, 102, 245>>, <<114, 135, 253>>, <<76, 79, 105>>, <<92, 95, 119>>,
          <<108, 111, 133>>, <<124, 127, 147>>, <<140, 143, 161>>, <<156, 160, 176>>,
          <<172, 176, 190>>, <<188, 192, 204>>, <<204, 208, 218>>, <<239, 241, 245>>,
          <<230, 233, 239>>, <<220, 224, 232>> >>,
      frappe |-> <<
          <<242, 213, 207>>, <<238, 190, 190>>, <<244, 184, 228>>, <<202, 158, 230>>,
          <<231, 130, 132>>, <<234, 153, 156>>, <<239, 159, 118>>, <<229, 200, 144>>,
          <<166, 209, 137>>, <<129, 200, 190>>, <<153, 209, 219>>, <<133, 193, 220>>,
          <<140, 170, 238>>, <<186, 187, 241>>, <<198, 208, 245>>, <<181, 191, 226>>,
          <<165, 173, 206>>, <<148, 156, 187>>, <<131, 139, 167>>, <<115, 121, 148>>,
          <<98, 104, 128>>, <<81, 87, 109>>, <<65, 69, 89>>, <<48, 52, 70>>,
          <<41, 44, 60>>, <<35, 38, 52>> >>,
      macchiato |-> <<
          <<244, 219, 214>>, <<240, 198, 198>>, <<245, 189, 230>>, <<198, 160, 246>>,
          <<237, 135, 150>>, <<238, 153, 160>>, <<245, 169, 127>>, <<238, 212, 159>>,
          <<166, 218, 149>>, <<139, 213, 202>>, <<145, 215, 227>>, <<125, 196, 228>>,
          <<138, 173, 244>>, <<183, 189, 248>>, <<202, 211, 245>>, <<184, 192, 224>>,
          <<165, 173, 203>>, <<147, 154, 183>>, <<128, 135, 162>>, <<110, 115, 141>>,
          <<91, 96, 120>>, <<73, 77, 100>>, <<54, 58, 79>>, <<36, 39, 58>>,
          <<30, 32, 48>>, <<24, 25, 38>> >>,
      mocha |-> <<
          <<245, 224, 220>>, <<242, 205, 205>>, <<245, 194, 231>>, <<203, 166, 247>>,
          <<243, 139, 168>>, <<235, 160, 172>>, <<250, 179, 135>>, <<249, 226, 175>>,
          <<166, 227, 161>>, <<148, 226, 213>>, <<137, 220, 235>>, <<116, 199, 236>>,
          <<137, 180, 250>>, <<180, 190, 254>>, <<205, 214, 244>>, <<186, 194, 222>>,
          <<166, 173, 200>>, <<147, 153, 178>>, <<127, 132, 156>>, <<108, 112, 134>>,
          <<88, 91, 112>>, <<69, 71, 90>>, <<49, 50, 68>>, <<30, 30, 46>>,
          <<24, 24, 37>>, <<17, 17, 27>> >> ]

SrgbToLinear ==
    << 0, 20, 40, 60, 80, 99, 119, 139, 159, 179, 199, 219,
       241, 264, 288, 313, 340, 367, 396, 427, 458, 491, 526, 562,
       599, 637, 677, 718, 761, 805, 851, 898, 947, 997, 1048, 1101,
       1156, 1212, 1270, 1330, 1391, 1453, 1517, 1583, 1651, 1720, 1791, 1863,
       1937, 2013, 2090, 2170, 2250, 2333, 2418, 2504, 2592, 2681, 2773, 2866,
       2961, 3058, 3157, 3258, 3360, 3464, 3570, 3678, 3788, 3900, 4014, 4129,
       4247, 4366, 4488, 4611, 4736, 4864, 4993, 5124, 5257, 5392, 5530, 5669,
       5810, 5953, 6099, 6246, 6395, 6547, 6701, 6856, 7014, 7174, 7336, 7500,
       7666, 7834, 8004, 8177, 8352, 8529, 8708, 8889, 9072, 9258, 9446, 9636,
       9828, 10022, 10219, 10418, 10619, 10822, 11028, 11236, 11446, 11658, 11873, 12090,
       12309, 12531, 12754, 12981, 13209, 13440, 13673, 13909, 14147, 14387, 14629, 14874,
       15122, 15372, 15624, 15878, 16135, 16394, 16656, 16920, 17187, 17456, 17727, 18001,
       18278, 18556, 18838, 19121, 19408, 19696, 19988, 20281, 20578, 20876, 21178, 21481,
       21788, 22096, 22408, 22722, 23038, 23357, 23679, 24003, 24329, 24659, 24991, 25325,
       25662, 26002, 26344, 26689, 27036, 27387, 27739, 28095, 28453, 28813, 29177, 29543,
       29911, 30283, 30657, 31033, 31413, 31795, 32180, 32567, 32957, 33350, 33746, 34144,
       34545, 34949, 35355, 35765, 36177, 36591, 37009, 37429, 37852, 38278, 38707, 39138,
       39572, 40009, 40449, 40892, 41337, 41786, 42237, 42691, 43147, 43607, 44069, 44534,
       45003, 45474, 45947, 46424, 46904, 47386, 47871, 48360, 48851, 49345, 49842, 50342,
       50844, 51350, 51859, 52370, 52884, 53402, 53922, 54445, 54972, 55501, 56033, 56568,
       57106, 57647, 58191, 58738, 59288, 59841, 60397, 60956, 61518, 62083, 62651, 63222,
       63796, 64373, 64953, 65536 >>

PaletteSize == 26

\* Fixed-point scales of the colour arithmetic: linear light and XYZ at 2^16,
\* the Lab function f at 2^14, Lab coordinates at 2^6.
RECURSIVE ISearch(_, _, _, _)
\* largest y in lo..hi with y^e <= T  (e = 2 or 3)
ISearch(T, e, lo, hi) ==
    IF lo >= hi THEN lo
    ELSE LET mid == (lo + hi + 1) \div 2
             p == IF e = 2 THEN mid * mid ELSE mid * mid * mid
         IN IF p <= T THEN ISearch(T, e, mid, hi) ELSE ISearch(T, e, lo, mid - 1)

\* the CIE Lab function f (cube root above epsilon = 216/24389, linear below)
\* the cube root of T at scale 2^4, from its integer part y
CubeRootFrom(T, y) ==
    16 * y + (16 * (T - y * y * y)) \div (3 * y * y + 3 * y + 1)

LabF(t) ==
    IF t > 580
    THEN CubeRootFrom(t * 16384, ISearch(t * 16384, 3, 0, 1024))
    ELSE (7787 * t) \div 4000 + 2260

\* Srgb::new(r/255, g/255, b/255).into_color() : Lab  (image_processing.rs:40-45, 62-65)
\* sRGB decoding, the sRGB/D65 matrix divided by the white point, then Lab.
LinearToXyz(lr, lg, lb) ==
    << (7110 * lr + 6164 * lg + 3110 * lb) \div 16384,
       (3484 * lr + 11717 * lg + 1183 * lb) \div 16384,
       (291 * lr + 1794 * lg + 14299 * lb) \div 16384 >>

LabFromF(fx, fy, fz) ==
    << (116 * fy - 16 * 16384) \div 256,
       (500 * (fx - fy)) \div 256,
       (200 * (fy - fz)) \div 256 >>

XyzToLab(xyz) == LabFromF(LabF(xyz[1]), LabF(xyz[2]), LabF(xyz[3]))

SrgbToLab(rgb) ==
    XyzToLab(LinearToXyz(SrgbToLinear[rgb[1] + 1], SrgbToLinear[rgb[2] + 1],
                         SrgbToLinear[rgb[3] + 1]))

\* Lab::distance_squared (image_processing.rs:72, 97)
DistanceSquared(p, q) ==
    (p[1] - q[1]) * (p[1] - q[1]) + (p[2] - q[2]) * (p[2] - q[2])
        + (p[3] - q[3]) * (p[3] - q[3])

\* catppuccin_labs (image_processing.rs:40-45)
CatppuccinLabs ==
    [f \in Flavors |-> [i \in 1..PaletteSize |-> SrgbToLab(PaletteRgb[f][i])]]

\* variant: linear-rbf blends the palette instead of choosing one colour
AlgorithmParams_LinearRbfWeighted(algorithm) ==
    CASE algorithm = "shepards-method"   -> [power10 |-> 20, weighted |-> TRUE]
      [] algorithm = "gaussian-rbf"      -> [power10 |-> 15, weighted |-> TRUE]
      [] algorithm = "linear-rbf"        -> [power10 |-> 10, weighted |-> TRUE]
      [] algorithm = "gaussian-sampling" -> [power10 |-> 25, weighted |-> TRUE]
      [] algorithm = "nearest-neighbor"  -> [power10 |-> 10, weighted |-> FALSE]
      [] algorithm = "hald"              -> [power10 |-> 20, weighted |-> TRUE]
      [] algorithm = "euclide"           -> [power10 |-> 10, weighted |-> FALSE]
      [] algorithm = "mean"              -> [power10 |-> 15, weighted |-> TRUE]
      [] algorithm = "std"               -> [power10 |-> 20, weighted |-> TRUE]
      [] OTHER                           -> [power10 |-> 20, weighted |-> TRUE]

\* variant: a name that is none of the nine selects the nearest colour
AlgorithmParams_UnknownNearest(algorithm) ==
    CASE algorithm = "shepards-method"   -> [power10 |-> 20, weighted |-> TRUE]
      [] algorithm = "gaussian-rbf"      -> [power10 |-> 15, weighted |-> TRUE]
      [] algorithm = "linear-rbf"        -> [power10 |-> 10, weighted |-> FALSE]
      [] algorithm = "gaussian-sampling" -> [power10 |-> 25, weighted |-> TRUE]
      [] algorithm = "nearest-neighbor"  -> [power10 |-> 10, weighted |-> FALSE]
      [] algorithm = "hald"              -> [power10 |-> 20, weighted |-> TRUE]
      [] algorithm = "euclide"           -> [power10 |-> 10, weighted |-> FALSE]
      [] algorithm = "mean"              -> [power10 |-> 15, weighted |-> TRUE]
      [] algorithm = "std"               -> [power10 |-> 20, weighted |-> TRUE]
      [] OTHER                           -> [power10 |-> 10, weighted |-> FALSE]

\* (power * 10, use_weighted) by algorithm name (image_processing.rs:47-58)
AlgorithmParams(algorithm) ==
    CASE algorithm = "shepards-method"   -> [power10 |-> 20, weighted |-> TRUE]
      [] algorithm = "gaussian-rbf"      -> [power10 |-> 15, weighted |-> TRUE]
      [] algorithm = "linear-rbf"        -> [power10 |-> 10, weighted |-> FALSE]
      [] algorithm = "gaussian-sampling" -> [power10 |-> 25, weighted |-> TRUE]
      [] algorithm = "nearest-neighbor"  -> [power10 |-> 10, weighted |-> FALSE]
      [] algorithm = "hald"              -> [power10 |-> 20, weighted |-> TRUE]
      [] algorithm = "euclide"           -> [power10 |-> 10, weighted |-> FALSE]
      [] algorithm = "mean"              -> [power10 |-> 15, weighted |-> TRUE]
      [] algorithm = "std"               -> [power10 |-> 20, weighted |-> TRUE]
      [] OTHER                           -> [power10 |-> 20, weighted |-> TRUE]

\* 2^31 - 1 stands for f32::MAX (image_processing.rs:94)
F32Max == 2147483647

RECURSIVE NearestLoop_LastWins(_, _, _, _)
\* variant: `distance <= min_distance`, the last of several nearest colours wins
NearestLoop_LastWins(dists, i, minDistance, closest) ==
    IF i > Len(dists) THEN closest
    ELSE IF dists[i] <= minDistance
         THEN NearestLoop_LastWins(dists, i + 1, dists[i], i)
         ELSE NearestLoop_LastWins(dists, i + 1, minDistance, closest)

RECURSIVE NearestLoop(_, _, _, _)
\* the loop of image_processing.rs:96-102 over the palette, from index i on
NearestLoop(dists, i, minDistance, closest) ==
    IF i > Len(dists) THEN closest
    ELSE IF dists[i] < minDistance
         THEN NearestLoop(dists, i + 1, dists[i], i)
         ELSE NearestLoop(dists, i + 1, minDistance, closest)

\* the distances of the input to the 26 palette colours
DistancesFrom(inputLab, labs) ==
    [i \in 1..PaletteSize |-> DistanceSquared(inputLab, labs[i])]

PaletteDistances(flavor, rgb) ==
    DistancesFrom(SrgbToLab(rgb), CatppuccinLabs[flavor])

\* variant: the loop skips the first palette colour
NearestIndex_FromSecond(flavor, rgb) ==
    NearestLoop(PaletteDistances(flavor, rgb), 2, F32Max, 1)

\* nearest family (image_processing.rs:93-104): index of the chosen colour
NearestIndex(flavor, rgb) ==
    NearestLoop(PaletteDistances(flavor, rgb), 1, F32Max, 1)

\* An f32 value is held exactly, as [m, k] standing for m * 2^-k with
\* 2^23 <= m < 2^24 (or m = 0): the 24-bit significand of IEEE-754 binary32.
\* Division and multiplication round to nearest, ties to even.

RECURSIVE Pow2(_)
Pow2(n) == IF n = 0 THEN 1 ELSE 2 * Pow2(n - 1)

\* long division of c by 255, one quotient bit per step, until the quotient
\* has 24 bits: on return c * 2^n = q * 255 + r
RECURSIVE DivNorm(_, _, _)
DivNorm(r, q, n) ==
    IF q >= 8388608 THEN [q |-> q, r |-> r, n |-> n]
    ELSE IF 2 * r >= 255 THEN DivNorm(2 * r - 255, 2 * q + 1, n + 1)
         ELSE DivNorm(2 * r, 2 * q, n + 1)

\* variant: the quotient is truncated instead of rounded to nearest
F32Div255_Truncating(c) ==
    IF c = 0 THEN [m |-> 0, k |-> 0]
    ELSE IF c = 255 THEN [m |-> 8388608, k |-> 23]
    ELSE LET d == DivNorm(c, 0, 0) IN [m |-> d.q, k |-> d.n]

\* `c as f32 / 255.0` for a byte c (image_processing.rs:123-125, 147-149)
F32Div255(c) ==
    IF c = 0 THEN [m |-> 0, k |-> 0]
    ELSE IF c = 255 THEN [m |-> 8388608, k |-> 23]
    ELSE LET d == DivNorm(c, 0, 0)
             m == IF 2 * d.r > 255 THEN d.q + 1 ELSE d.q
         IN IF m = 16777216 THEN [m |-> 8388608, k |-> d.n - 1]
            ELSE [m |-> m, k |-> d.n]

\* `x * 255.0` (image_processing.rs:119-121, 152-154).  The 32-bit product
\* m * 255 is formed in two halves and rounded back to 24 bits.
F32Mul255(x) ==
    IF x.m = 0 THEN x
    ELSE LET A == (x.m \div 256) * 255
             B == (x.m % 256) * 255
             T == A + (B \div 256)
             rem8 == B % 256
             wide == T >= 8388608
             m0 == IF wide THEN T ELSE 2 * T + (rem8 \div 128)
             rem == IF wide THEN rem8 ELSE rem8 % 128
             half == IF wide THEN 128 ELSE 64
             s == IF wide THEN 8 ELSE 7
             m1 == IF rem > half \/ (rem = half /\ m0 % 2 = 1) THEN m0 + 1 ELSE m0
         IN IF m1 = 16777216 THEN [m |-> 8388608, k |-> x.k - s - 1]
            ELSE [m |-> m1, k |-> x.k - s]

\* m0 with a remainder rem out of `one` rounded to nearest, ties to even
RoundNearestEven(m0, rem, one) ==
    IF 2 * rem > one \/ (2 * rem = one /\ m0 % 2 = 1) THEN m0 + 1 ELSE m0

\* `x * 1e6` for a positive f32 x: 1e6 = 15625 * 2^6, and the 38-bit product
\* m * 15625 is formed in two halves and rounded back to 24 bits
F32Mul1e6(x) ==
    LET A == (x.m \div 4096) * 15625
        B == (x.m % 4096) * 15625
        T == A + (B \div 4096)
        rem12 == B % 4096
        wide == T >= 33554432
        m0 == IF wide THEN T \div 4 ELSE T \div 2
        rem == IF wide THEN (T % 4) * 4096 + rem12 ELSE (T % 2) * 4096 + rem12
        s == IF wide THEN 14 ELSE 13
        m1 == RoundNearestEven(m0, rem, IF wide THEN 16384 ELSE 8192)
    IN IF m1 = 16777216 THEN [m |-> 8388608, k |-> x.k - 6 - s - 1]
       ELSE [m |-> m1, k |-> x.k - 6 - s]

\* `x + t` for an f32 x >= 1 (x.k <= 15) and a small t >= 0 held at scale
\* 2^15: t is rounded to the last place of the sum
F32AddSmall(x, t) ==
    LET ulp == Pow2(15 - x.k)
        G == x.m + (t \div ulp)
        rem == t % ulp
    IN IF G >= 16777216
       THEN [m |-> RoundNearestEven(G \div 2, (G % 2) * ulp + rem, 2 * ulp), k |-> x.k - 1]
       ELSE LET m1 == RoundNearestEven(G, rem, ulp)
            IN IF m1 = 16777216 THEN [m |-> 8388608, k |-> x.k - 1]
               ELSE [m |-> m1, k |-> x.k]

\* long division by d, one quotient bit per step: q * d + r is kept
RECURSIVE DivBits(_, _, _, _)
DivBits(r, q, d, n) ==
    IF n = 0 THEN [q |-> q, r |-> r]
    ELSE IF 2 * r >= d THEN DivBits(2 * r - d, 2 * q + 1, d, n - 1)
         ELSE DivBits(2 * r, 2 * q, d, n - 1)

\* `x / y` for positive f32 x and y
F32Div(x, y) ==
    LET ge == x.m >= y.m
        b == IF ge THEN DivBits(x.m - y.m, 1, y.m, 23) ELSE DivBits(x.m, 0, y.m, 24)
        k == IF ge THEN x.k - y.k + 23 ELSE x.k - y.k + 24
        m1 == RoundNearestEven(b.q, b.r, y.m)
    IN IF m1 = 16777216 THEN [m |-> 8388608, k |-> k - 1] ELSE [m |-> m1, k |-> k]

\* `.clamp(0.0, 255.0) as u8` and `.clamp(0.0, 255.0) as usize).min(255)`
ClampTrunc(x) ==
    IF x.m = 0 \/ x.k > 30 THEN 0
    ELSE IF x.k <= 0 THEN 255
    ELSE LET v == x.m \div Pow2(x.k) IN IF v > 255 THEN 255 ELSE v

\* floor(2^15 * a / b) for 0 <= a <= b, one quotient bit per step
RECURSIVE Ratio15(_, _, _, _)
Ratio15(r, b, q, n) ==
    IF n = 0 THEN q
    ELSE IF 2 * r >= b THEN Ratio15(2 * r - b, b, 2 * q + 1, n - 1)
         ELSE Ratio15(2 * r, b, 2 * q, n - 1)

\* (a/b)^power at scale 2^15, for power in {1.0, 1.5, 2.0, 2.5}
QPow(q, power10) ==
    CASE power10 = 10 -> q
      [] power10 = 15 -> (q * ISearch(q * 32768, 2, 0, 32768)) \div 32768
      [] power10 = 20 -> (q * q) \div 32768
      [] OTHER        -> (((q * q) \div 32768) * ISearch(q * 32768, 2, 0, 32768)) \div 32768

RatioPow(a, b, power10) ==
    QPow(IF a = b THEN 32768 ELSE Ratio15(a, b, 0, 15), power10)

RECURSIVE SeqMin(_, _)
SeqMin(s, i) ==
    IF i = Len(s) THEN s[i]
    ELSE LET m == SeqMin(s, i + 1) IN IF s[i] < m THEN s[i] ELSE m

RECURSIVE WeightedSum(_, _, _)
\* sum over the palette of weight * value  (image_processing.rs:79-82)
WeightedSum(weights, values, i) ==
    IF i > Len(weights) THEN 0
    ELSE weights[i] * values[i] + WeightedSum(weights, values, i + 1)

RECURSIVE SeqMinPositive(_, _)
\* the smallest positive element of s from index i on (F32Max if none)
SeqMinPositive(s, i) ==
    IF i > Len(s) THEN F32Max
    ELSE LET m == SeqMinPositive(s, i + 1)
         IN IF s[i] > 0 /\ s[i] < m THEN s[i] ELSE m

\* the weights when a colour at distance 0 counts for nothing
Weights_ZeroAtZeroDistance(dists, dmin, power10) ==
    [i \in 1..PaletteSize |->
        IF dists[i] = 0 THEN 0
        ELSE RatioPow(SeqMinPositive(dists, 1), dists[i], power10)]

\* weight of each palette colour (image_processing.rs:73): 1/distance^power
\* (1e6 at distance 0), held relative to the largest weight, at scale 2^15
Weights(dists, dmin, power10) ==
    [i \in 1..PaletteSize |->
        IF dmin = 0
        THEN (IF dists[i] = 0 THEN 32768 ELSE 0)
        ELSE RatioPow(dmin, dists[i], power10)]

\* `(x).clamp(0.0, 255.0) as u8` of a non-negative quotient
ClampByte(v) == IF v > 255 THEN 255 ELSE v

\* one channel of the blend (image_processing.rs:79-81, 86-88)
BlendChannel(flavor, weights, total, c) ==
    ClampByte(WeightedSum(weights, [i \in 1..PaletteSize |-> PaletteRgb[flavor][i][c]], 1)
              \div total)

\* image_processing.rs:84-92
BlendTotal(flavor, weights, total) ==
    IF total > 0
    THEN << BlendChannel(flavor, weights, total, 1),
            BlendChannel(flavor, weights, total, 2),
            BlendChannel(flavor, weights, total, 3) >>
    ELSE PaletteRgb[flavor][1]

Blend(flavor, weights) ==
    BlendTotal(flavor, weights, WeightedSum(weights, [i \in 1..PaletteSize |-> 1], 1))

\* `1.0 / distance.powf(power)` (image_processing.rs:73) for a positive
\* distance, at scale 2^15 (distances are at scale 2^12).  No two colours of
\* a palette are nearer than distance 1: a weight above 1.0 is held at 1.0.
InverseDistanceWeight(dist, power10) ==
    IF dist >= 4096 THEN RatioPow(4096, dist, power10) ELSE 32768

\* the index of the first element of dists that is 0, from index i on
RECURSIVE FirstZero(_, _)
FirstZero(dists, i) == IF dists[i] = 0 THEN i ELSE FirstZero(dists, i + 1)

\* the sum of terms[1..j-1]
RECURSIVE SumBefore(_, _)
SumBefore(terms, j) == IF j <= 1 THEN 0 ELSE terms[j - 1] + SumBefore(terms, j - 1)

\* `acc += terms[i]` for i, i + 1, ... in turn, each sum rounded to f32
RECURSIVE AddAfter(_, _, _)
AddAfter(acc, terms, i) ==
    IF i > Len(terms) THEN acc
    ELSE AddAfter(F32AddSmall(acc, terms[i]), terms, i + 1)

\* total_weight when colour j is at distance 0 (image_processing.rs:73, 82):
\* the weights before j, then 1e6, then the weights after j one by one
TotalWeightAtHit(weight, j) ==
    AddAfter(F32AddSmall([m |-> 16000000, k |-> 4], SumBefore(weight, j)), weight, j + 1)

\* one channel of the blend when colour j is at distance 0
\* (image_processing.rs:74-81, 86-88), in f32 as the code computes it
BlendChannelAtHit(flavor, weight, j, total_weight, c) ==
    LET cr == F32Div255(PaletteRgb[flavor][j][c])
        terms == [i \in 1..PaletteSize |-> (weight[i] * PaletteRgb[flavor][i][c]) \div 255]
        weighted == AddAfter(F32AddSmall(F32Mul1e6(cr), SumBefore(terms, j)), terms, j + 1)
    IN IF cr.m = 0 THEN 0
       ELSE ClampTrunc(F32Mul255(F32Div(weighted, total_weight)))

\* the blend for an input at distance 0 from a palette colour: that colour
\* has weight 1e6 and the others 1/distance^power
BlendAtHit(flavor, dists, power10) ==
    LET j == FirstZero(dists, 1)
        weight == [i \in 1..PaletteSize |->
                      IF i = j THEN 0 ELSE InverseDistanceWeight(dists[i], power10)]
        total_weight == TotalWeightAtHit(weight, j)
    IN << BlendChannelAtHit(flavor, weight, j, total_weight, 1),
          BlendChannelAtHit(flavor, weight, j, total_weight, 2),
          BlendChannelAtHit(flavor, weight, j, total_weight, 3) >>

\* variant: a colour at distance 0 gets weight 0 instead of 1e6
WeightedFrom_ZeroAtZeroDistance(flavor, dists, power10) ==
    Blend(flavor, Weights_ZeroAtZeroDistance(dists, SeqMin(dists, 1), power10))

\* the blend for the distances dists: where no colour is at distance 0 the
\* weights are held relative to the largest one
WeightedFrom(flavor, dists, power10) ==
    IF SeqMin(dists, 1) = 0
    THEN BlendAtHit(flavor, dists, power10)
    ELSE Blend(flavor, Weights(dists, SeqMin(dists, 1), power10))

\* weighted-blend family (image_processing.rs:66-92)
WeightedColor(flavor, rgb, power10) ==
    WeightedFrom(flavor, PaletteDistances(flavor, rgb), power10)

\* closest_color for one input triple (image_processing.rs:62-104)
LutEntry(flavor, algorithm, rgb) ==
    IF AlgorithmParams(algorithm).weighted
    THEN WeightedColor(flavor, rgb, AlgorithmParams(algorithm).power10)
    ELSE PaletteRgb[flavor][NearestIndex(flavor, rgb)]

\* lut_idx (image_processing.rs:105)
LutIdx(rgb) == (rgb[1] * 256 * 256 + rgb[2] * 256 + rgb[3]) * 3

\* the (r_idx, g_idx, b_idx) whose entry starts at byte 3 * cell
CellRgb(cell) == << cell \div 65536, (cell \div 256) % 256, cell % 256 >>

\* The LUT generate_catppuccin_lut builds (image_processing.rs:46-112): the
\* key it was built from, the length of the array and, of its 256^3 entries,
\* those of the cells given, each as lines 62-108 write it.
BuildLut(flavor, algorithm, cells) ==
    [flavor |-> flavor, algorithm |-> algorithm, len |-> LutLen,
     cells |-> [rgb \in cells |-> LutEntry(flavor, algorithm, rgb)]]

\* lut[idx] for a cell the LUT value carries; the cells it does not carry
\* are not modelled and read as 0
LutAt(lut, idx) ==
    IF CellRgb(idx \div 3) \in DOMAIN lut.cells
    THEN lut.cells[CellRgb(idx \div 3)][(idx % 3) + 1]
    ELSE 0

\* ------------------------------------------------------------------------
\* image_processing.rs: sample_lut and apply_lut_to_image
\* ------------------------------------------------------------------------
\* the index sample_lut computes (image_processing.rs:119-122)
SampleIdx(r, g, b) ==
    LET r_idx == ClampTrunc(F32Mul255(r))
        g_idx == ClampTrunc(F32Mul255(g))
        b_idx == ClampTrunc(F32Mul255(b))
    IN (r_idx * 256 * 256 + g_idx * 256 + b_idx) * 3

\* sample_lut (image_processing.rs:118-132)
sample_lut(lut, r, g, b) ==
    LET idx == SampleIdx(r, g, b)
    IN IF idx + 2 < lut.len
       THEN << F32Div255(LutAt(lut, idx)),
               F32Div255(LutAt(lut, idx + 1)),
               F32Div255(LutAt(lut, idx + 2)) >>
       ELSE << r, g, b >>

\* variant: the output pixel is made opaque
TransformPixel_OpaqueAlpha(lut, pixel) ==
    LET transformed == sample_lut(lut, F32Div255(pixel[1]), F32Div255(pixel[2]),
                                  F32Div255(pixel[3]))
    IN << ClampTrunc(F32Mul255(transformed[1])),
          ClampTrunc(F32Mul255(transformed[2])),
          ClampTrunc(F32Mul255(transformed[3])), 255 >>

\* the closure of image_processing.rs:146-156 for one pixel <<r, g, b, a>>
TransformPixel(lut, pixel) ==
    LET r == F32Div255(pixel[1])
        g == F32Div255(pixel[2])
        b == F32Div255(pixel[3])
        a == pixel[4]
        transformed == sample_lut(lut, r, g, b)
        new_r == ClampTrunc(F32Mul255(transformed[1]))
        new_g == ClampTrunc(F32Mul255(transformed[2]))
        new_b == ClampTrunc(F32Mul255(transformed[3]))
    IN << new_r, new_g, new_b, a >>

\* img.put_pixel(x, y, pixel) for each element of transformed_pixels, from
\* element i on (image_processing.rs:158-160); pixels are kept row by row
RECURSIVE PutPixels(_, _, _, _)
PutPixels(pixels, width, transformed, i) ==
    IF i > Len(transformed) THEN pixels
    ELSE LET t == transformed[i]
         IN PutPixels([pixels EXCEPT ![t.y * width + t.x + 1] = t.pixel],
                      width, transformed, i + 1)

\* apply_lut_to_image (image_processing.rs:134-161)
apply_lut_to_image(img, lut) ==
    LET width == img.width
        pixels == [i \in 1..Len(img.pixels) |->
                      [x |-> (i - 1) % width, y |-> (i - 1) \div width,
                       pixel |-> img.pixels[i]]]
        transformed_pixels == [i \in 1..Len(pixels) |->
                      [x |-> pixels[i].x, y |-> pixels[i].y,
                       pixel |-> TransformPixel(lut, pixels[i].pixel)]]
    IN [img EXCEPT !.pixels = PutPixels(img.pixels, width, transformed_pixels, 1)]

\* ------------------------------------------------------------------------
\* One LUT entry: the body of the loops of generate_catppuccin_lut
\* ------------------------------------------------------------------------
\* input triples away from the boundaries between palette colours, and one
\* (<<50, 40, 90>>) whose two nearest Macchiato colours are equally far
CubeSample ==
    { <<255, 0, 0>>, <<0, 0, 0>>, <<255, 255, 255>>, <<50, 40, 90>>,
      <<243, 139, 168>>, <<239, 241, 245>>, <<128, 128, 128>>, <<0, 255, 0>>,
      <<30, 30, 46>> }

LutInputs(flavor) ==
    CubeSample \cup { PaletteRgb[flavor][i] : i \in 1..PaletteSize }

\* input triples whose blend, for every flavor and power, is away from an
\* integer in every channel
WeightedSample ==
    { <<79, 146, 150>>, <<72, 85, 101>>, <<195, 244, 101>>, <<0, 99, 80>>,
      <<206, 160, 67>>, <<255, 0, 0>> }

\* the nine names of image_processing.rs:48-56 and one that is none of them
AlgorithmNames ==
    { "shepards-method", "gaussian-rbf", "linear-rbf", "gaussian-sampling",
      "nearest-neighbor", "hald", "euclide", "mean", "std", "lanczos" }

CallInputs(flavor, algorithm) ==
    IF algorithm \in NearestAlgorithms
    THEN LutInputs(flavor)
    ELSE WeightedSample \cup { PaletteRgb[flavor][i] : i \in 1..PaletteSize }

NoLutCall ==
    [phase |-> "idle", flavor |-> "latte", algorithm |-> "nearest-neighbor",
     rgb |-> <<0, 0, 0>>, entry |-> <<0, 0, 0>>, power10 |-> 0, weighted |-> FALSE]

LutCalls ==
    UNION { { [phase |-> "call", flavor |-> fa[1], algorithm |-> fa[2], rgb |-> rgb,
               entry |-> <<0, 0, 0>>, power10 |-> 0, weighted |-> FALSE]
              : rgb \in CallInputs(fa[1], fa[2]) }
            : fa \in Flavors \X AlgorithmNames }

\* image_processing.rs:47-108 for one (r_idx, g_idx, b_idx)
L_Entry ==
    /\ lutCall.phase = "call"
    /\ lutCall' = [lutCall EXCEPT !.phase = "done",
                        !.entry = LutEntry(lutCall.flavor, lutCall.algorithm, lutCall.rgb),
                        !.power10 = AlgorithmParams(lutCall.algorithm).power10,
                        !.weighted = AlgorithmParams(lutCall.algorithm).weighted]
    /\ UNCHANGED <<mainVars, cacheVars, cmdVars, applyCall, gifCall, imageVars, argVars, extraVars>>

\* ------------------------------------------------------------------------
\* One call of apply_lut_to_image
\* ------------------------------------------------------------------------
MaxPixels == 4

\* <<r, g, b, a>>
SamplePixels ==
    { <<255, 0, 0, 0>>, <<50, 40, 90, 128>>, <<30, 30, 46, 255>> }

\* width and height of the images of at most MaxPixels pixels
ImageDims ==
    { d \in (0..MaxPixels) \X (0..MaxPixels) : d[1] * d[2] <= MaxPixels }

\* the images of at most MaxPixels sample pixels, and the 1x1 images
\* <<0, c, 0, c>> for every byte c
Images ==
    UNION { { [width |-> d[1], height |-> d[2], pixels |-> p]
              : p \in [1..(d[1] * d[2]) -> SamplePixels] }
            : d \in ImageDims }
    \cup { [width |-> 1, height |-> 1, pixels |-> << <<0, c, 0, c>> >>] : c \in 0..255 }

\* the cells of the LUT the pixels of an image index
ImageCells(img) ==
    { << img.pixels[i][1], img.pixels[i][2], img.pixels[i][3] >> : i \in 1..Len(img.pixels) }

NoImage == [width |-> 0, height |-> 0, pixels |-> <<>>]

NoApplyCall ==
    [phase |-> "idle", img |-> NoImage,
     lut |-> BuildLut("latte", "nearest-neighbor", {}), out |-> NoImage,
     again |-> NoImage]

\* the cells of a LUT that mapping an image, and mapping the result once
\* more, index: the colours of the image and the entries at those colours
ApplyCells(flavor, algorithm, img) ==
    ImageCells(img) \cup { LutEntry(flavor, algorithm, c) : c \in ImageCells(img) }

\* an image and the LUT of a flavor and a nearest-family algorithm
ApplyCalls ==
    { [phase |-> "call", img |-> i, out |-> i, again |-> i,
       lut |-> BuildLut(f, a, ApplyCells(f, a, i))]
      : i \in Images, f \in Flavors, a \in NearestAlgorithms }

\* image_processing.rs:134-161
A_Apply ==
    /\ applyCall.phase = "call"
    /\ applyCall' = [applyCall EXCEPT !.phase = "done",
                       !.out = apply_lut_to_image(applyCall.img, applyCall.lut)]
    /\ UNCHANGED <<mainVars, cacheVars, cmdVars, lutCall, gifCall, imageVars, argVars, extraVars>>

\* apply_lut_to_image called once more, on the image it has mapped, with the
\* same LUT (image_processing.rs:134-161)
A_ApplyAgain ==
    /\ applyCall.phase = "done"
    /\ applyCall' = [applyCall EXCEPT !.phase = "again",
                       !.again = apply_lut_to_image(applyCall.out, applyCall.lut)]
    /\ UNCHANGED <<mainVars, cacheVars, cmdVars, lutCall, gifCall, imageVars, argVars, extraVars>>

\* ------------------------------------------------------------------------
\* image_processing.rs: LUT_CACHE and generate_catppuccin_lut
\* ------------------------------------------------------------------------
NumCallers == 2

Callers == 1..NumCallers

NumUsers == 2

Users == 1..NumUsers

\* the callers of generate_catppuccin_lut: the threads of the cache runs, and
\* the invocation of Handler::message serving each user; the message, GIF
\* and button handlers followed one at a time call as 1 (message, GIF) and
\* 2 (button)
LutCallers == Callers \cup Users

\* the keys the callers ask for: <<flavor, algorithm>>
CallKeys ==
    { <<"latte", "nearest-neighbor">>, <<"latte", "shepards-method">>,
      <<"mocha", "nearest-neighbor">> }

\* the cells of each LUT that the model of the cache carries
CacheCells == { <<255, 0, 0>> }

NoLut == [flavor |-> "none", algorithm |-> "none", len |-> 0, cells |-> <<>>]

\* variant: the cache is searched by flavor alone
CacheGet_FlavorOnly(cache, key) ==
    IF \E k \in DOMAIN cache : k[1] = key[1]
    THEN cache[CHOOSE k \in DOMAIN cache : k[1] = key[1]]
    ELSE NoLut

\* cache.get(&key) (image_processing.rs:18-19); NoLut stands for None
CacheGet(cache, key) ==
    IF key \in DOMAIN cache THEN cache[key] ELSE NoLut

\* cache.insert(key, arc) (image_processing.rs:114)
CacheInsert(cache, key, lut) ==
    [k \in DOMAIN cache \cup {key} |-> IF k = key THEN lut ELSE cache[k]]

CacheInit ==
    /\ lutCache = [k \in {} |-> NoLut]
    /\ gpc = [c \in LutCallers |-> "idle"]
    /\ gkey = [c \in LutCallers |-> <<"latte", "nearest-neighbor">>]
    /\ glut = [c \in LutCallers |-> NoLut]
    /\ builds = [k \in CallKeys |-> 0]

\* the call `generate_catppuccin_lut(flavor, algorithm)` as its caller makes
\* it: the key is formed (image_processing.rs:15-16), nothing is locked yet
CallLut(c, key) ==
    /\ gpc[c] = "idle"
    /\ gpc' = [gpc EXCEPT ![c] = "lookup"]
    /\ gkey' = [gkey EXCEPT ![c] = key]
    /\ glut' = [glut EXCEPT ![c] = NoLut]
    /\ UNCHANGED <<lutCache, builds>>

\* the caller has the Arc the call returned and, having used it, drops it
UseLut(c) ==
    /\ gpc[c] = "returned"
    /\ gpc' = [gpc EXCEPT ![c] = "idle"]
    /\ glut' = [glut EXCEPT ![c] = NoLut]
    /\ UNCHANGED <<lutCache, gkey, builds>>

\* the build count of a key, one more
CountBuild(count, key) ==
    [k \in DOMAIN count \cup {key} |->
        IF k = key THEN (IF k \in DOMAIN count THEN count[k] ELSE 0) + 1
        ELSE count[k]]

\* entry of generate_catppuccin_lut (image_processing.rs:15-16)
G_Call(c, key) ==
    /\ CallLut(c, key)
    /\ UNCHANGED <<mainVars, pureVars, cmdVars>>

\* the first critical section (image_processing.rs:17-22): the lock is
\* released at the end of the block whether or not the key was found
G_Lookup(c) ==
    /\ gpc[c] = "lookup"
    /\ LET hit == CacheGet(lutCache, gkey[c])
       IN IF hit # NoLut
          THEN /\ glut' = [glut EXCEPT ![c] = hit]
               /\ gpc' = [gpc EXCEPT ![c] = "returned"]
          ELSE /\ gpc' = [gpc EXCEPT ![c] = "build"]
               /\ UNCHANGED glut
    /\ UNCHANGED <<lutCache, gkey, builds>>
    /\ UNCHANGED <<mainVars, pureVars, cmdVars>>

\* the build, outside any lock (image_processing.rs:23-112)
G_Build(c) ==
    /\ gpc[c] = "build"
    /\ glut' = [glut EXCEPT ![c] = BuildLut(gkey[c][1], gkey[c][2], CacheCells)]
    /\ builds' = CountBuild(builds, gkey[c])
    /\ gpc' = [gpc EXCEPT ![c] = "insert"]
    /\ UNCHANGED <<lutCache, gkey>>
    /\ UNCHANGED <<mainVars, pureVars, cmdVars>>

\* the second critical section and the return (image_processing.rs:113-115)
G_Insert(c) ==
    /\ gpc[c] = "insert"
    /\ lutCache' = CacheInsert(lutCache, gkey[c], glut[c])
    /\ gpc' = [gpc EXCEPT ![c] = "returned"]
    /\ UNCHANGED <<gkey, glut, builds>>
    /\ UNCHANGED <<mainVars, pureVars, cmdVars>>

\* the caller drops the Arc it was given
G_Drop(c) ==
    /\ UseLut(c)
    /\ UNCHANGED <<mainVars, pureVars, cmdVars>>

\* ------------------------------------------------------------------------
\* commands.rs: Handler::message, one image attachment (lines 955-1158)
\* ------------------------------------------------------------------------
\* the commands sent with an image: `!cat`, `!cat mocha`, `!cat compare`,
\* `!cat stats` and `!cat all`; without a flavor argument the flavor is latte
\* (commands.rs:270)
CmdCommands ==
    { [mode |-> "single", flavor |-> "latte"], [mode |-> "single", flavor |-> "mocha"],
      [mode |-> "compare", flavor |-> "latte"], [mode |-> "stats", flavor |-> "latte"],
      [mode |-> "all", flavor |-> "latte"] }

\* the flavors of `!cat all`, in the order of the loop (commands.rs:1065-1070)
AllFlavorNames == <<"latte", "frappe", "macchiato", "mocha">>

\* the (user, channel) pairs COLOR_CONFIRM_MAP is keyed by: one user in two
\* channels
ConfirmSlots == { <<1, 1>>, <<1, 2>> }

NoConfirm == [flavor |-> "none", algorithm |-> "none"]

NoConfirmStat == [k \in ConfirmSlots |-> [stores |-> 0, clicks |-> 0, images |-> 0]]

\* no press of the button is inside interaction_create: the lock of
\* COLOR_CONFIRM_MAP is free
NoPress == [pc |-> "idle", slot |-> <<0, 0>>, entry |-> NoConfirm]

\* map.insert(key, value) on COLOR_CONFIRM_MAP (commands.rs:1047-1048)
ConfirmInsert(map, slot, value) ==
    [k \in DOMAIN map \cup {slot} |-> IF k = slot THEN value ELSE map[k]]

\* one more stats message stored for the pair, where the pair is counted
CountStore(stat, slot) ==
    IF slot \in DOMAIN stat THEN [stat EXCEPT ![slot].stores = @ + 1] ELSE stat

NoCmdJob ==
    [pc |-> "idle", mode |-> "single", flavor |-> "latte",
     outcome |-> "none", images |-> 0, idx |-> 0]

NoCancel == [requested |-> FALSE, early |-> FALSE, reply |-> "none"]

CmdInit ==
    /\ cmdJob = [u \in Users |-> NoCmdJob]
    /\ cmdCancel = [u \in Users |-> NoCancel]

\* what a step of the job that calls nothing leaves alone
CmdFrame ==
    /\ UNCHANGED <<cmdCancel, lutCache>>
    /\ UNCHANGED <<mainVars, pureVars, gpc, gkey, glut, builds>>

\* what a step of the job at a call of generate_catppuccin_lut leaves alone
CmdLutFrame == UNCHANGED <<cmdCancel, mainVars, pureVars>>

\* a return of Handler::message after a failure message (or none)
CmdFail(u, why) ==
    cmdJob' = [cmdJob EXCEPT ![u].pc = "done", ![u].outcome = why]

\* a command with an image attached (commands.rs:221-310, 955-968)
K_Receive(u, cmd) ==
    /\ cmdJob[u].pc = "idle"
    /\ cmdJob' = [cmdJob EXCEPT ![u] = [pc |-> "content_check", mode |-> cmd.mode,
                    flavor |-> cmd.flavor, outcome |-> "none", images |-> 0, idx |-> 0]]
    /\ CmdFrame

\* commands.rs:971-978
K_ContentCheck(u, isImage) ==
    /\ cmdJob[u].pc = "content_check"
    /\ IF isImage THEN cmdJob' = [cmdJob EXCEPT ![u].pc = "fetch"]
       ELSE CmdFail(u, "not_image")
    /\ CmdFrame

\* commands.rs:980-1004
K_Fetch(u, ok) ==
    /\ cmdJob[u].pc = "fetch"
    /\ IF ok THEN cmdJob' = [cmdJob EXCEPT ![u].pc = "decode"]
       ELSE CmdFail(u, "fetch_failed")
    /\ CmdFrame

\* commands.rs:1005-1027
K_Decode(u, ok) ==
    /\ cmdJob[u].pc = "decode"
    /\ IF ok
       THEN cmdJob' = [cmdJob EXCEPT ![u].pc =
                          CASE cmdJob[u].mode = "stats" -> "stats"
                            [] cmdJob[u].mode = "all"   -> "all"
                            [] OTHER                    -> "map"]
       ELSE CmdFail(u, "decode_failed")
    /\ CmdFrame

\* commands.rs:1029-1049: the colour statistics; the image is written as PNG
\* with unwrap (1045), so a failure to encode it panics the handler: nothing
\* is stored and nothing is sent.  Otherwise the image, the suggested flavor
\* and the selected algorithm are stored for (author, channel) under the
\* lock of COLOR_CONFIRM_MAP (1046-1049), which a press of the button holds
\* for as long as it runs; the users write in channel 1
K_Stats(u, ok, suggested_flavor) ==
    /\ cmdJob[u].pc = "stats"
    /\ IF ok
       THEN /\ confirmPress.pc = "idle"
            /\ confirmMap' = ConfirmInsert(confirmMap, <<u, 1>>,
                                [flavor |-> suggested_flavor, algorithm |-> "shepards-method"])
            /\ confirmStat' = CountStore(confirmStat, <<u, 1>>)
            /\ cmdJob' = [cmdJob EXCEPT ![u].pc = "stats_reply"]
       ELSE /\ CmdFail(u, "panicked")
            /\ UNCHANGED <<confirmMap, confirmStat>>
    /\ UNCHANGED <<cmdCancel, mainVars, cacheVars, lutCall, applyCall, gifCall, imageVars,
                   argReq, argCount, confirmPress, parseCall, sanitizeCall, queueVars>>

\* commands.rs:1050-1059: the message with the statistics and the button
K_StatsReply(u) ==
    /\ cmdJob[u].pc = "stats_reply"
    /\ cmdJob' = [cmdJob EXCEPT ![u].pc = "done", ![u].outcome = "stats_sent"]
    /\ CmdFrame

\* commands.rs:1072-1076: the next of the four flavors, up to the call of
\* generate_catppuccin_lut for it
K_AllFlavors(u) ==
    /\ cmdJob[u].pc = "all"
    /\ CallLut(u, <<AllFlavorNames[cmdJob[u].idx + 1], "shepards-method">>)
    /\ cmdJob' = [cmdJob EXCEPT ![u].pc = "all_encode"]
    /\ CmdLutFrame

\* commands.rs:1077-1087: the LUT is applied and the image encoded; an image
\* that fails to encode is skipped, and the loop goes on or ends
K_AllEncode(u, ok) ==
    /\ cmdJob[u].pc = "all_encode"
    /\ UseLut(u)
    /\ cmdJob' = [cmdJob EXCEPT
                    ![u].idx = @ + 1,
                    ![u].images = IF ok THEN @ + 1 ELSE @,
                    ![u].pc = IF cmdJob[u].idx + 1 < Len(AllFlavorNames)
                              THEN "all" ELSE "all_send"]
    /\ CmdLutFrame

\* commands.rs:1089-1100: the images that were encoded are sent in one
\* message, which the handler awaits
K_AllSend(u) ==
    /\ cmdJob[u].pc = "all_send"
    /\ cmdJob' = [cmdJob EXCEPT ![u].pc = "done",
                    ![u].outcome = IF cmdJob[u].images > 0 THEN "delivered"
                                   ELSE "none_encoded"]
    /\ CmdFrame

\* commands.rs:1103-1105: up to the call of generate_catppuccin_lut
K_Map(u) ==
    /\ cmdJob[u].pc = "map"
    /\ CallLut(u, <<cmdJob[u].flavor, "shepards-method">>)
    /\ cmdJob' = [cmdJob EXCEPT ![u].pc = "encode"]
    /\ CmdLutFrame

\* apply_lut_to_image with the LUT returned (1106), then commands.rs:1109-1122
\* (comparison) and 1134-1145
K_Encode(u, ok) ==
    /\ cmdJob[u].pc = "encode"
    /\ UseLut(u)
    /\ IF ok THEN cmdJob' = [cmdJob EXCEPT ![u].pc = "deliver"]
       ELSE CmdFail(u, "encode_failed")
    /\ CmdLutFrame

\* commands.rs:1123-1131 (comparison) and 1146-1158
K_Deliver(u) ==
    /\ cmdJob[u].pc = "deliver"
    /\ cmdJob' = [cmdJob EXCEPT ![u].pc = "done", ![u].images = 1,
                    ![u].outcome = "delivered"]
    /\ CmdFrame

\* `!cat cancel`, handled by another invocation of Handler::message while
\* the user's job runs: no attachment, parts[1] = "cancel" is no flavor,
\* algorithm, quality, format or subcommand, and is no hex colour
\* (commands.rs:816-828).  `early` records that the job had not yet begun
\* the transform when the request was made.
K_Cancel(u) ==
    /\ cmdJob[u].pc \notin {"idle", "done"}
    /\ ~cmdCancel[u].requested
    /\ cmdCancel' = [cmdCancel EXCEPT ![u] =
                        [requested |-> TRUE,
                         early |-> cmdJob[u].pc \in {"content_check", "fetch", "decode"},
                         reply |-> "invalid_hex"]]
    /\ UNCHANGED <<cmdJob, lutCache>>
    /\ UNCHANGED <<mainVars, pureVars, gpc, gkey, glut, builds>>

\* ------------------------------------------------------------------------
\* commands.rs: the arguments of a message and the LUT keys they lead to
\* ------------------------------------------------------------------------
MaxRequests == 2

\* Option::None of the parse functions
None == "<none>"

\* str::to_lowercase on the words used here: the ones written with capitals
\* are listed, every other word is in lowercase already
ToLowercase(s) ==
    CASE s = "SHEPARDS" -> "shepards"
      [] s = "Shepards" -> "shepards"
      [] s = "SHEPARDS-METHOD" -> "shepards-method"
      [] s = "Shepards-method" -> "shepards-method"
      [] s = "Shepards-Method" -> "shepards-method"
      [] s = "SHEPARD" -> "shepard"
      [] s = "Shepard" -> "shepard"
      [] s = "GAUSSIAN" -> "gaussian"
      [] s = "Gaussian" -> "gaussian"
      [] s = "GAUSSIAN-RBF" -> "gaussian-rbf"
      [] s = "Gaussian-rbf" -> "gaussian-rbf"
      [] s = "Gaussian-Rbf" -> "gaussian-rbf"
      [] s = "RBF" -> "rbf"
      [] s = "Rbf" -> "rbf"
      [] s = "LINEAR" -> "linear"
      [] s = "Linear" -> "linear"
      [] s = "LINEAR-RBF" -> "linear-rbf"
      [] s = "Linear-rbf" -> "linear-rbf"
      [] s = "Linear-Rbf" -> "linear-rbf"
      [] s = "SAMPLING" -> "sampling"
      [] s = "Sampling" -> "sampling"
      [] s = "GAUSSIAN-SAMPLING" -> "gaussian-sampling"
      [] s = "Gaussian-sampling" -> "gaussian-sampling"
      [] s = "Gaussian-Sampling" -> "gaussian-sampling"
      [] s = "GAUSS" -> "gauss"
      [] s = "Gauss" -> "gauss"
      [] s = "NEAREST" -> "nearest"
      [] s = "Nearest" -> "nearest"
      [] s = "NEAREST-NEIGHBOR" -> "nearest-neighbor"
      [] s = "Nearest-neighbor" -> "nearest-neighbor"
      [] s = "Nearest-Neighbor" -> "nearest-neighbor"
      [] s = "NN" -> "nn"
      [] s = "Nn" -> "nn"
      [] s = "HALD" -> "hald"
      [] s = "Hald" -> "hald"
      [] s = "EUCLIDE" -> "euclide"
      [] s = "Euclide" -> "euclide"
      [] s = "MEAN" -> "mean"
      [] s = "Mean" -> "mean"
      [] s = "STD" -> "std"
      [] s = "Std" -> "std"
      [] s = "MOCHA" -> "mocha"
      [] s = "Mocha" -> "mocha"
      [] s = "NOT-AN-ALGO" -> "not-an-algo"
      [] s = "Not-an-algo" -> "not-an-algo"
      [] s = "Not-An-Algo" -> "not-an-algo"
      [] s = "FAST" -> "fast"
      [] s = "Fast" -> "fast"
      [] OTHER -> s

\* utils.rs:15-23
parse_flavor(s) ==
    IF ToLowercase(s) \in {"latte", "frappe", "macchiato", "mocha"}
    THEN ToLowercase(s) ELSE None

\* variant: a recognised word is returned as it was written, in lowercase
parse_algorithm_AliasKept(s) ==
    IF ToLowercase(s) \in {"shepards", "shepards-method", "shepard", "gaussian",
                           "gaussian-rbf", "rbf", "linear", "linear-rbf", "sampling",
                           "gaussian-sampling", "gauss", "nearest", "nearest-neighbor",
                           "nn", "hald", "euclide", "mean", "std"}
    THEN ToLowercase(s) ELSE None

\* variant: the word is compared as it was written
parse_algorithm_CaseSensitive(s) ==
    CASE s \in {"shepards", "shepards-method", "shepard"} -> "shepards-method"
      [] s \in {"gaussian", "gaussian-rbf", "rbf"} -> "gaussian-rbf"
      [] s \in {"linear", "linear-rbf"} -> "linear-rbf"
      [] s \in {"sampling", "gaussian-sampling", "gauss"} -> "gaussian-sampling"
      [] s \in {"nearest", "nearest-neighbor", "nn"} -> "nearest-neighbor"
      [] s = "hald" -> "hald"
      [] s = "euclide" -> "euclide"
      [] s = "mean" -> "mean"
      [] s = "std" -> "std"
      [] OTHER -> None

\* utils.rs:26-39
parse_algorithm(s) ==
    CASE ToLowercase(s) \in {"shepards", "shepards-method", "shepard"} -> "shepards-method"
      [] ToLowercase(s) \in {"gaussian", "gaussian-rbf", "rbf"} -> "gaussian-rbf"
      [] ToLowercase(s) \in {"linear", "linear-rbf"} -> "linear-rbf"
      [] ToLowercase(s) \in {"sampling", "gaussian-sampling", "gauss"} -> "gaussian-sampling"
      [] ToLowercase(s) \in {"nearest", "nearest-neighbor", "nn"} -> "nearest-neighbor"
      [] ToLowercase(s) = "hald" -> "hald"
      [] ToLowercase(s) = "euclide" -> "euclide"
      [] ToLowercase(s) = "mean" -> "mean"
      [] ToLowercase(s) = "std" -> "std"
      [] OTHER -> None

\* utils.rs:42-49
parse_quality(s) ==
    CASE ToLowercase(s) = "fast"   -> "nearest-neighbor"
      [] ToLowercase(s) = "normal" -> "shepards-method"
      [] ToLowercase(s) = "high"   -> "gaussian-sampling"
      [] OTHER -> None

\* the selections after the first argument (commands.rs:270-285 and the
\* chain of 287-745); `args` are the words after the command word
SelectFirst(args) ==
    LET fast == \E i \in 1..Len(args) : args[i] = "-f"
        start == [flavor |-> "latte", explicit |-> FALSE,
                  algorithm |-> IF fast THEN "nearest-neighbor" ELSE "shepards-method",
                  all |-> FALSE, stats |-> FALSE]
    IN IF Len(args) = 0 THEN start
       ELSE IF args[1] = "all" THEN [start EXCEPT !.all = TRUE]
       ELSE IF args[1] = "stats" THEN [start EXCEPT !.stats = TRUE]
       ELSE IF parse_flavor(args[1]) # None
            THEN [start EXCEPT !.flavor = parse_flavor(args[1]), !.explicit = TRUE]
       ELSE IF parse_algorithm(args[1]) # None
            THEN [start EXCEPT !.algorithm = parse_algorithm(args[1])]
       ELSE start

\* the selections after the second argument (commands.rs:752, 806-815)
SelectSecond(sel, args) ==
    IF Len(args) >= 2 /\ sel.explicit
    THEN IF parse_algorithm(args[2]) # None
         THEN [sel EXCEPT !.algorithm = parse_algorithm(args[2])]
         ELSE IF parse_quality(args[2]) # None
              THEN [sel EXCEPT !.algorithm = parse_quality(args[2])]
              ELSE sel
    ELSE sel

Selections(args) == SelectSecond(SelectFirst(args), args)

\* the words a message is made of
ArgWords == {"Mocha", "NN", "high", "bogus", "all", "stats", "-f"}

\* the argument lists of the messages: none, each word alone, each word
\* after a flavor, and -f after `all` and `stats`
ArgLists ==
    {<<>>} \cup { <<a>> : a \in ArgWords }
           \cup { <<"Mocha", b>> : b \in ArgWords }
           \cup { <<"all", "-f">>, <<"stats", "-f">> }

\* the stats messages
StatsArgLists == { <<"stats">>, <<"stats", "-f">> }

MaxClicks == 2

RECURSIVE SumClicks(_, _)
SumClicks(stat, slots) ==
    IF slots = {} THEN 0
    ELSE LET k == CHOOSE k \in slots : TRUE
         IN stat[k].clicks + SumClicks(stat, slots \ {k})

NoArgReq ==
    [pc |-> "idle", args |-> <<>>, attachments |-> 0, lut |-> <<>>, idx |-> 0,
     sel |-> [flavor |-> "latte", explicit |-> FALSE, algorithm |-> "shepards-method",
              all |-> FALSE, stats |-> FALSE]]

\* what the handling of arguments leaves alone
ArgFrame ==
    UNCHANGED <<mainVars, gpc, gkey, glut, builds, cmdVars, lutCall, applyCall, gifCall,
                imageVars, parseCall, sanitizeCall, queueVars>>

\* what a step at a call of generate_catppuccin_lut leaves alone
ArgLutFrame ==
    UNCHANGED <<mainVars, cmdVars, lutCall, applyCall, gifCall,
                imageVars, parseCall, sanitizeCall, queueVars>>

\* the message handler calls generate_catppuccin_lut as caller 1 and the
\* button handler as caller 2
MessageCaller == 1

ButtonCaller == 2

\* a message arrives and its arguments are read (commands.rs:221-815); the
\* messages are followed one at a time, overlapping handlers are those of
\* the K_ steps above
R_Message(args, attachments) ==
    /\ argReq.pc \in {"idle", "done"}
    /\ argCount < MaxRequests
    /\ argReq' = [pc |-> "parsed", args |-> args, attachments |-> attachments,
                  lut |-> <<>>, idx |-> 0, sel |-> Selections(args)]
    /\ UNCHANGED <<argCount, confirmMap, confirmPress, confirmStat, lutCache>>
    /\ ArgFrame

\* the message is answered without a LUT: nothing attached, or the image
\* could not be fetched or decoded, or could not be written for the stats
\* (commands.rs:818-871, 977-1017, 1045)
R_Abandon ==
    /\ argReq.pc = "parsed"
    /\ argReq' = [argReq EXCEPT !.pc = "done"]
    /\ argCount' = argCount + 1
    /\ UNCHANGED <<confirmMap, confirmPress, confirmStat, lutCache>>
    /\ ArgFrame

\* the handler is at the top of the loop over the attachments
InBatch ==
    /\ argReq.pc \in {"parsed", "loop"}
    /\ argReq.attachments > 1

\* the handler is at the top of the loop over the four flavors
InAllFlavors ==
    /\ argReq.pc \in {"parsed", "loop"}
    /\ argReq.attachments = 1
    /\ ~argReq.sel.stats /\ argReq.sel.all

\* the turns the loop of the message makes
Turns ==
    IF argReq.attachments > 1 THEN argReq.attachments
    ELSE IF argReq.sel.all /\ ~argReq.sel.stats THEN Len(AllFlavorNames)
    ELSE 1

\* several attachments: the next one is downloaded and decoded, and the LUT
\* of the selected flavor and algorithm is asked for (commands.rs:883-921)
R_Batch ==
    /\ InBatch
    /\ CallLut(MessageCaller, <<argReq.sel.flavor, argReq.sel.algorithm>>)
    /\ argReq' = [argReq EXCEPT !.pc = "lut"]
    /\ UNCHANGED <<argCount, confirmMap, confirmPress, confirmStat>>
    /\ ArgLutFrame

\* an attachment that is no image, or cannot be downloaded or decoded, is
\* passed over (commands.rs:885-918)
R_BatchSkip ==
    /\ InBatch
    /\ argReq' = [argReq EXCEPT !.idx = @ + 1,
                                !.pc = IF argReq.idx + 1 < Turns THEN "loop" ELSE "send"]
    /\ UNCHANGED <<argCount, confirmMap, confirmPress, confirmStat, lutCache>>
    /\ ArgFrame

\* `stats` with one attachment: the image is kept with the suggested flavor
\* and the selected algorithm (commands.rs:1029-1049, the insert at
\* 1047-1048); the handler waits for the lock while a press holds it
R_Stats(slot, suggested_flavor) ==
    /\ argReq.pc = "parsed" /\ argReq.attachments = 1 /\ argReq.sel.stats
    /\ confirmPress.pc = "idle"
    /\ confirmMap' = ConfirmInsert(confirmMap, slot,
                        [flavor |-> suggested_flavor, algorithm |-> argReq.sel.algorithm])
    /\ confirmStat' = CountStore(confirmStat, slot)
    /\ argReq' = [argReq EXCEPT !.pc = "send"]
    /\ UNCHANGED <<argCount, confirmPress, lutCache>>
    /\ ArgFrame

\* `all` with one attachment: the next of the four flavors, up to the call
\* of generate_catppuccin_lut (commands.rs:1072-1076)
R_AllFlavors ==
    /\ InAllFlavors
    /\ CallLut(MessageCaller, <<AllFlavorNames[argReq.idx + 1], argReq.sel.algorithm>>)
    /\ argReq' = [argReq EXCEPT !.pc = "lut"]
    /\ UNCHANGED <<argCount, confirmMap, confirmPress, confirmStat>>
    /\ ArgLutFrame

\* one attachment, one flavor (commands.rs:1103-1105)
R_Single ==
    /\ argReq.pc = "parsed" /\ argReq.attachments = 1
    /\ ~argReq.sel.stats /\ ~argReq.sel.all
    /\ CallLut(MessageCaller, <<argReq.sel.flavor, argReq.sel.algorithm>>)
    /\ argReq' = [argReq EXCEPT !.pc = "lut"]
    /\ UNCHANGED <<argCount, confirmMap, confirmPress, confirmStat>>
    /\ ArgLutFrame

\* the LUT the call returned is applied and the image encoded
\* (commands.rs:922-938, 1077-1087, 1106-1145); the loop goes on with the
\* next attachment or flavor, or the handler goes on to its reply
R_Mapped ==
    /\ argReq.pc = "lut"
    /\ UseLut(MessageCaller)
    /\ argReq' = [argReq EXCEPT !.lut = Append(@, gkey[MessageCaller]),
                                !.idx = @ + 1,
                                !.pc = IF argReq.idx + 1 < Turns THEN "loop" ELSE "send"]
    /\ UNCHANGED <<argCount, confirmMap, confirmPress, confirmStat>>
    /\ ArgLutFrame

\* the reply is sent and awaited, and the handler returns
\* (commands.rs:940-952, 1050-1060, 1089-1100, 1146-1158)
R_Send ==
    /\ argReq.pc = "send"
    /\ argReq' = [argReq EXCEPT !.pc = "done"]
    /\ argCount' = argCount + 1
    /\ UNCHANGED <<confirmMap, confirmPress, confirmStat, lutCache>>
    /\ ArgFrame

\* variant: the entry is read and left in the map
R_Confirm_KeepsEntry(slot) ==
    /\ confirmPress.pc = "idle"
    /\ SumClicks(confirmStat, ConfirmSlots) < MaxClicks
    /\ confirmStat' = [confirmStat EXCEPT ![slot].clicks = @ + 1]
    /\ IF slot \in DOMAIN confirmMap
       THEN /\ confirmPress' = [pc |-> "lut", slot |-> slot, entry |-> confirmMap[slot]]
            /\ CallLut(ButtonCaller, <<confirmMap[slot].flavor, confirmMap[slot].algorithm>>)
       ELSE /\ confirmPress' = [pc |-> "respond", slot |-> slot, entry |-> NoConfirm]
            /\ UNCHANGED <<lutCache, gpc, gkey, glut, builds>>
    /\ UNCHANGED <<argReq, argCount, confirmMap>>
    /\ ArgLutFrame

\* the button under a stats message is pressed (commands.rs:1173-1183): the
\* handler locks COLOR_CONFIRM_MAP (1178) and keeps the guard until it
\* returns, so a press that finds the lock taken waits and then does all of
\* this.  An entry of the presser in that channel is taken out of the map,
\* its image decoded and the LUT of its flavor and algorithm asked for
\* (1179-1183); without an entry the handler goes to its reply (1198).  The
\* image decoded is the PNG the stats handler wrote and the image encoded
\* afterwards is RGBA8: the unwraps of 1180 and 1188 do not fail
R_Confirm(slot) ==
    /\ confirmPress.pc = "idle"
    /\ SumClicks(confirmStat, ConfirmSlots) < MaxClicks
    /\ confirmStat' = [confirmStat EXCEPT ![slot].clicks = @ + 1]
    /\ IF slot \in DOMAIN confirmMap
       THEN /\ confirmMap' = [k \in DOMAIN confirmMap \ {slot} |-> confirmMap[k]]
            /\ confirmPress' = [pc |-> "lut", slot |-> slot, entry |-> confirmMap[slot]]
            /\ CallLut(ButtonCaller, <<confirmMap[slot].flavor, confirmMap[slot].algorithm>>)
       ELSE /\ confirmPress' = [pc |-> "respond", slot |-> slot, entry |-> NoConfirm]
            /\ UNCHANGED <<confirmMap, lutCache, gpc, gkey, glut, builds>>
    /\ UNCHANGED <<argReq, argCount>>
    /\ ArgLutFrame

\* with the LUT returned the image is mapped and encoded, and the response
\* to the interaction is created and awaited (commands.rs:1184-1196); the
\* guard of the map is still held
R_ConfirmRespond ==
    /\ confirmPress.pc = "lut"
    /\ UseLut(ButtonCaller)
    /\ confirmPress' = [confirmPress EXCEPT !.pc = "send"]
    /\ UNCHANGED <<argReq, argCount, confirmMap, confirmStat>>
    /\ ArgLutFrame

\* the image is sent and awaited, the handler returns and the guard of the
\* map is dropped (commands.rs:1197, 1204)
R_ConfirmSend ==
    /\ confirmPress.pc = "send"
    /\ confirmPress' = NoPress
    /\ confirmStat' = [confirmStat EXCEPT ![confirmPress.slot].images = @ + 1]
    /\ UNCHANGED <<argReq, argCount, confirmMap, lutCache>>
    /\ ArgFrame

\* "No pending color analysis found." is sent and awaited, the handler
\* returns and the guard of the map is dropped (commands.rs:1198-1204)
R_ConfirmNone ==
    /\ confirmPress.pc = "respond"
    /\ confirmPress' = NoPress
    /\ UNCHANGED <<argReq, argCount, confirmMap, confirmStat, lutCache>>
    /\ ArgFrame

\* ------------------------------------------------------------------------
\* utils.rs: parse_algorithm and sanitize_filename as functions
\* ------------------------------------------------------------------------
\* the words parse_algorithm is called with: every alias in lowercase, in
\* capitals and capitalised, and words that are no alias
AliasWords ==
    {"shepards", "shepards-method", "shepard", "gaussian", "gaussian-rbf", "rbf",
     "linear", "linear-rbf", "sampling", "gaussian-sampling", "gauss", "nearest",
     "nearest-neighbor", "nn", "hald", "euclide", "mean", "std"}

CapitalWords ==
    {"SHEPARDS", "Shepards", "SHEPARDS-METHOD", "Shepards-method", "Shepards-Method",
     "SHEPARD", "Shepard", "GAUSSIAN", "Gaussian", "GAUSSIAN-RBF", "Gaussian-rbf",
     "Gaussian-Rbf", "RBF", "Rbf", "LINEAR", "Linear", "LINEAR-RBF", "Linear-rbf",
     "Linear-Rbf", "SAMPLING", "Sampling", "GAUSSIAN-SAMPLING", "Gaussian-sampling",
     "Gaussian-Sampling", "GAUSS", "Gauss", "NEAREST", "Nearest", "NEAREST-NEIGHBOR",
     "Nearest-neighbor", "Nearest-Neighbor", "NN", "Nn", "HALD", "Hald", "EUCLIDE",
     "Euclide", "MEAN", "Mean", "STD", "Std"}

OtherWords ==
    {"", "not-an-algo", "Not-An-Algo", "fast", "FAST", "high", "lanczos", "shepards_method",
     "nearest neighbor", "nn ", "mocha", "bilinear"}

NoParseCall == [phase |-> "idle", input |-> "", out |-> None]

ParseCalls ==
    { [phase |-> "call", input |-> w, out |-> None]
      : w \in AliasWords \cup CapitalWords \cup OtherWords }

\* utils.rs:26-39
U_ParseAlgorithm ==
    /\ parseCall.phase = "call"
    /\ parseCall' = [parseCall EXCEPT !.phase = "done", !.out = parse_algorithm(parseCall.input)]
    /\ UNCHANGED <<mainVars, cacheVars, cmdVars, lutCall, applyCall, gifCall, imageVars,
                   argVars, sanitizeCall, confirmStat, queueVars>>

\* A filename is a sequence of characters.
MaxNameLen == 66

Letters ==
    {"a", "b", "c", "d", "e", "f", "g", "h", "i", "j", "k", "l", "m", "n", "o", "p", "q",
     "r", "s", "t", "u", "v", "w", "x", "y", "z",
     "A", "B", "C", "D", "E", "F", "G", "H", "I", "J", "K", "L", "M", "N", "O", "P", "Q",
     "R", "S", "T", "U", "V", "W", "X", "Y", "Z"}

Digits == {"0", "1", "2", "3", "4", "5", "6", "7", "8", "9"}

\* the characters the pattern [^A-Za-z0-9._-] leaves in place (utils.rs:155)
SafeChars == Letters \cup Digits \cup {".", "_", "-"}

\* the characters trim_matches removes at both ends (utils.rs:158)
TrimChars == {".", "_", "-"}

\* re.replace_all(filename, "_") (utils.rs:156)
ReplaceUnsafe(name) ==
    [i \in 1..Len(name) |-> IF name[i] \in SafeChars THEN name[i] ELSE "_"]

RECURSIVE TrimStart(_)
TrimStart(name) ==
    IF name # <<>> /\ Head(name) \in TrimChars THEN TrimStart(Tail(name)) ELSE name

RECURSIVE TrimEnd(_)
TrimEnd(name) ==
    IF name # <<>> /\ name[Len(name)] \in TrimChars
    THEN TrimEnd(SubSeq(name, 1, Len(name) - 1)) ELSE name

\* name.truncate(64) when name.len() > 64 (utils.rs:160-162)
Truncate64(name) == IF Len(name) > 64 THEN SubSeq(name, 1, 64) ELSE name

\* name.split('.').last(): what follows the last dot
RECURSIVE LastSegment(_)
LastSegment(name) ==
    IF \E i \in 1..Len(name) : name[i] = "."
    THEN LastSegment(Tail(name)) ELSE name

\* the extension step (utils.rs:164-173)
EnsureExtension(name, default_ext) ==
    IF ~(\E i \in 1..Len(name) : name[i] = ".")
    THEN name \o <<".">> \o default_ext
    ELSE IF Len(LastSegment(name)) > 8 \/ LastSegment(name) = <<>>
         THEN name \o <<".">> \o default_ext
         ELSE name

\* utils.rs:152-175
sanitize_filename(filename, default_ext) ==
    EnsureExtension(Truncate64(TrimEnd(TrimStart(ReplaceUnsafe(filename)))), default_ext)

\* n times the character c
Repeat(c, n) == [i \in 1..n |-> c]

NameSuffixes ==
    { <<>>, <<".", "p", "n", "g">>, <<".">>, <<"/", "b", " ", "c">>,
      <<".", "p", "h", "o", "t", "o", "s", "h", "o", "p">>, <<"_", "-">> }

DefaultExts == { <<"p", "n", "g">>, <<"g", "i", "f">> }

NoSanitizeCall == [phase |-> "idle", filename |-> <<>>, default_ext |-> <<>>, out |-> <<>>]

SanitizeCalls ==
    { [phase |-> "call", filename |-> Repeat("a", n) \o x, default_ext |-> e, out |-> <<>>]
      : n \in 0..MaxNameLen, x \in NameSuffixes, e \in DefaultExts }

\* utils.rs:152-175
U_Sanitize ==
    /\ sanitizeCall.phase = "call"
    /\ sanitizeCall' =
          [sanitizeCall EXCEPT !.phase = "done",
             !.out = sanitize_filename(sanitizeCall.filename, sanitizeCall.default_ext)]
    /\ UNCHANGED <<mainVars, cacheVars, cmdVars, lutCall, applyCall, gifCall, imageVars,
                   argVars, parseCall, confirmStat, queueVars>>

UtilIdle ==
    /\ parseCall = NoParseCall /\ sanitizeCall = NoSanitizeCall
    /\ confirmStat = NoConfirmStat

\* ------------------------------------------------------------------------
\* main.rs: TaskQueue
\* ------------------------------------------------------------------------
\* Time is counted in units of 100 ms.  The callers of enqueue each send one
\* task; a task is a record of its id, its kind, the caller that sent it and,
\* once spawned, the time process_task still sleeps.
NumEnqueuers == 2

Enqueuers == 1..NumEnqueuers

\* TaskType::Help and TaskType::PalettePreview
TaskKinds == {"help", "palette"}

\* the sleep of process_task for each kind (main.rs:214, 207): 100 ms, 300 ms
TaskDuration(kind) == IF kind = "help" THEN 1 ELSE 3

\* the sleep of the third branch of the select (main.rs:134): 100 ms
FlagDelay == 1

NoCaller == [pc |-> "idle", kind |-> "help", id |-> 0, len |-> 0]

\* the processor holds no task
NoTask == [id |-> 0, kind |-> "help", caller |-> 0, left |-> 0]

QueueInit ==
    /\ qNextId = 1
    /\ qChan = <<>>
    /\ qQueue = <<>>
    /\ qProcessing = FALSE
    /\ qSleep = 0
    /\ qRunning = {}
    /\ qLen = 0
    /\ qPc = "select"
    /\ qHeld = NoTask
    /\ qCaller = [c \in Enqueuers |-> NoCaller]

\* what the queue leaves alone
QueueFrame ==
    UNCHANGED <<mainVars, cacheVars, cmdVars, lutCall, applyCall, gifCall, imageVars,
                argVars, utilVars>>

\* the sleep future of the third branch is created anew at every turn of the
\* loop and is polled only while `processing` holds (main.rs:134)
NewSleep(processing) == IF processing THEN FlagDelay ELSE 0

\* TaskQueue::enqueue, the id (main.rs:144-151): next_id is read and
\* incremented under its lock
Q_TakeId(c, kind) ==
    /\ qCaller[c].pc = "idle"
    /\ qCaller' = [qCaller EXCEPT ![c] = [pc |-> "send", kind |-> kind, id |-> qNextId,
                                          len |-> 0]]
    /\ qNextId' = qNextId + 1
    /\ UNCHANGED <<qChan, qQueue, qProcessing, qSleep, qRunning, qLen, qPc, qHeld>>
    /\ QueueFrame

\* TaskQueue::enqueue, the send and the return of Ok(task_id) (main.rs:153-164)
Q_Send(c) ==
    /\ qCaller[c].pc = "send"
    /\ qChan' = Append(qChan, [id |-> qCaller[c].id, kind |-> qCaller[c].kind,
                               caller |-> c, left |-> 0])
    /\ qCaller' = [qCaller EXCEPT ![c].pc = "returned"]
    /\ UNCHANGED <<qNextId, qQueue, qProcessing, qSleep, qRunning, qLen, qPc, qHeld>>
    /\ QueueFrame

\* TaskQueue::get_queue_length (main.rs:166-169), called by a caller whose
\* enqueue has returned: queue_length is read under its lock
Q_GetLength(c) ==
    /\ qCaller[c].pc = "returned"
    /\ qCaller' = [qCaller EXCEPT ![c].pc = "asked", ![c].len = qLen]
    /\ UNCHANGED <<qNextId, qChan, qQueue, qProcessing, qSleep, qRunning, qLen, qPc, qHeld>>
    /\ QueueFrame

\* the processor, first branch (main.rs:82-85): a task is received; the
\* processor then waits for the lock of next_id
Q_Receive ==
    /\ qPc = "select"
    /\ qChan # <<>>
    /\ qHeld' = Head(qChan)
    /\ qChan' = Tail(qChan)
    /\ qPc' = "take_id"
    /\ UNCHANGED <<qNextId, qQueue, qProcessing, qSleep, qRunning, qLen, qCaller>>
    /\ QueueFrame

\* the processor, first branch (main.rs:85-97): with the lock of next_id the
\* task is given the next id; it is pushed on the queue, and the processor
\* waits for the lock of queue_length
Q_Push ==
    /\ qPc = "take_id"
    /\ qQueue' = Append(qQueue, [qHeld EXCEPT !.id = qNextId])
    /\ qNextId' = qNextId + 1
    /\ qHeld' = NoTask
    /\ qPc' = "queued_len"
    /\ UNCHANGED <<qChan, qProcessing, qSleep, qRunning, qLen, qCaller>>
    /\ QueueFrame

\* the processor, first branch (main.rs:97-101): with the lock of
\* queue_length the length of the queue is written, and the loop turns
Q_QueuedLength ==
    /\ qPc = "queued_len"
    /\ qLen' = Len(qQueue)
    /\ qSleep' = NewSleep(qProcessing)
    /\ qPc' = "select"
    /\ UNCHANGED <<qNextId, qChan, qQueue, qProcessing, qRunning, qHeld, qCaller>>
    /\ QueueFrame

\* the processor, second branch (main.rs:109-122): the first task of the
\* queue is removed and `processing` set; the processor then waits for the
\* lock of queue_length
Q_Dispatch ==
    /\ qPc = "select"
    /\ ~qProcessing /\ qQueue # <<>>
    /\ qProcessing' = TRUE
    /\ qHeld' = Head(qQueue)
    /\ qQueue' = Tail(qQueue)
    /\ qPc' = "removed_len"
    /\ UNCHANGED <<qNextId, qChan, qSleep, qRunning, qLen, qCaller>>
    /\ QueueFrame

\* the processor, second branch (main.rs:122-129): with the lock of
\* queue_length the length of the queue is written, process_task is spawned
\* for the task removed, and the loop turns
Q_Spawn ==
    /\ qPc = "removed_len"
    /\ qLen' = Len(qQueue)
    /\ qRunning' = qRunning \cup {[qHeld EXCEPT !.left = TaskDuration(qHeld.kind)]}
    /\ qHeld' = NoTask
    /\ qSleep' = NewSleep(qProcessing)
    /\ qPc' = "select"
    /\ UNCHANGED <<qNextId, qChan, qQueue, qProcessing, qCaller>>
    /\ QueueFrame

\* the processor, third branch (main.rs:134-136): the sleep has elapsed
Q_FlagReset ==
    /\ qPc = "select"
    /\ qProcessing /\ qSleep = 0
    /\ qProcessing' = FALSE
    /\ qSleep' = NewSleep(FALSE)
    /\ UNCHANGED <<qNextId, qChan, qQueue, qRunning, qLen, qPc, qHeld, qCaller>>
    /\ QueueFrame

\* process_task returns (main.rs:185-221): its sleep has elapsed
Q_Complete(t) ==
    /\ t \in qRunning /\ t.left = 0
    /\ qRunning' = qRunning \ {t}
    /\ UNCHANGED <<qNextId, qChan, qQueue, qProcessing, qSleep, qLen, qPc, qHeld, qCaller>>
    /\ QueueFrame

\* 100 ms pass: the processor is in the select, nothing that is ready is
\* left waiting, every sleep in progress comes 100 ms nearer its end
Q_Tick ==
    /\ qPc = "select"
    /\ qChan = <<>>
    /\ ~(~qProcessing /\ qQueue # <<>>)
    /\ ~(qProcessing /\ qSleep = 0)
    /\ \A t \in qRunning : t.left > 0
    /\ qProcessing \/ qRunning # {}
    /\ qSleep' = IF qSleep > 0 THEN qSleep - 1 ELSE 0
    /\ qRunning' = { [t EXCEPT !.left = @ - 1] : t \in qRunning }
    /\ UNCHANGED <<qNextId, qChan, qQueue, qProcessing, qLen, qPc, qHeld, qCaller>>
    /\ QueueFrame

\* ------------------------------------------------------------------------
\* image_processing.rs: process_gif_with_palette
\* ------------------------------------------------------------------------
\* A GIF stream as the gif crate's decoder presents it: whether the header
\* can be read, the global palette, and the frames in stream order.  A frame
\* is unreadable (read_next_frame returns Err) or has a width, a height, an
\* optional local palette, a buffer of palette indices and a delay.
MaxFrames == 2

\* Option<palette>: the bytes r, g, b of each colour in turn
NoPalette == [present |-> FALSE, bytes |-> <<>>]

\* the global palette of the stream of test_process_gif_with_palette_minimal
GlobalPalette == [present |-> TRUE, bytes |-> <<255, 0, 0, 0, 255, 0>>]

LocalPalette == [present |-> TRUE, bytes |-> <<0, 0, 255, 30, 30, 46>>]

\* Frame::transparent = None; an index is a byte
NoTransparent == 256

CorruptFrame ==
    [corrupt |-> TRUE, width |-> 0, height |-> 0, buffer |-> <<>>,
     palette |-> NoPalette, delay |-> 0, transparent |-> NoTransparent]

\* index 2 is outside both palettes
GifBuffers ==
    { [width |-> 1, height |-> 1, buffer |-> <<0>>],
      [width |-> 1, height |-> 1, buffer |-> <<2>>],
      [width |-> 2, height |-> 1, buffer |-> <<1, 0>>] }

\* frames whose only pixel is the transparent one: index 0 without a palette
\* of its own, index 2 outside its own palette
TransparentFrames ==
    { [corrupt |-> FALSE, width |-> 1, height |-> 1, buffer |-> <<0>>,
       palette |-> NoPalette, delay |-> 3, transparent |-> 0],
      [corrupt |-> FALSE, width |-> 1, height |-> 1, buffer |-> <<2>>,
       palette |-> LocalPalette, delay |-> 3, transparent |-> 2] }

GifFrames ==
    { [corrupt |-> FALSE, width |-> b.width, height |-> b.height, buffer |-> b.buffer,
       palette |-> p, delay |-> d, transparent |-> NoTransparent]
      : b \in GifBuffers, p \in {NoPalette, LocalPalette}, d \in {3, 7} }
    \cup TransparentFrames \cup {CorruptFrame}

Gifs ==
    { [header_ok |-> h, global_palette |-> g, frames |-> fs]
      : h \in BOOLEAN, g \in {NoPalette, GlobalPalette},
        fs \in UNION { [1..n -> GifFrames] : n \in 0..MaxFrames } }

\* frame.palette ... .or(global_palette ...) (image_processing.rs:232)
ResolvePalette(frame, global_palette) ==
    IF frame.palette.present THEN frame.palette ELSE global_palette

\* the four bytes pushed for one index (image_processing.rs:237-254)
IndexRgba(idx, palette) ==
    IF palette.present
    THEN IF idx * 3 + 2 < Len(palette.bytes)
         THEN << palette.bytes[idx * 3 + 1], palette.bytes[idx * 3 + 2],
                 palette.bytes[idx * 3 + 3], 255 >>
         ELSE << 0, 0, 0, 255 >>
    ELSE << idx, idx, idx, 255 >>

\* variant: the transparent index of the frame is given alpha 0
FrameRgba_TransparentKept(frame, palette) ==
    [k \in 1..Len(frame.buffer) |->
        IF frame.buffer[k] = frame.transparent
        THEN [IndexRgba(frame.buffer[k], palette) EXCEPT ![4] = 0]
        ELSE IndexRgba(frame.buffer[k], palette)]

\* rgba_buf, one element per pixel (image_processing.rs:236-254)
FrameRgba(frame, palette) ==
    [k \in 1..Len(frame.buffer) |-> IndexRgba(frame.buffer[k], palette)]

\* variant: the processed frame keeps the delay GifFrame::from_rgba_speed
\* gives it
ProcessFrame_DefaultDelay(frame, global_palette, flavor, algorithm) ==
    LET rgba == FrameRgba(frame, ResolvePalette(frame, global_palette))
        img == [width |-> frame.width, height |-> frame.height, pixels |-> rgba]
    IN [width |-> frame.width, height |-> frame.height, delay |-> 0,
        rgba |-> rgba,
        pixels |-> apply_lut_to_image(img,
                      BuildLut(flavor, algorithm, ImageCells(img))).pixels]

\* the body of the loop for a frame that converts (image_processing.rs:230-261):
\* the frame pushed to processed_frames, with the RGBA pixels the indices
\* resolve to and the pixels after apply_lut_to_image
ProcessFrame(frame, global_palette, flavor, algorithm) ==
    LET rgba == FrameRgba(frame, ResolvePalette(frame, global_palette))
        img == [width |-> frame.width, height |-> frame.height, pixels |-> rgba]
    IN [width |-> frame.width, height |-> frame.height, delay |-> frame.delay,
        rgba |-> rgba,
        pixels |-> apply_lut_to_image(img,
                      BuildLut(flavor, algorithm, ImageCells(img))).pixels]

\* variant: an unreadable frame ends the loop like the end of the stream
ReadNextFrame_ErrorEndsStream(gif, next) ==
    IF next > Len(gif.frames) THEN {"none"}
    ELSE IF gif.frames[next].corrupt THEN {"none"}
    ELSE IF ~gif.frames[next].palette.present /\ ~gif.global_palette.present
         THEN {"frame", "err"}
    ELSE {"frame"}

\* decoder.read_next_frame() (image_processing.rs:229), the answers the
\* reader of the gif crate can give: Ok(None) at the end of the stream, Err
\* for frame data it cannot read, Ok(Some) for a frame.  The reader is not
\* part of this repository: a frame without a colour table of its own, in a
\* stream without a global one, is either delivered with frame.palette =
\* None or refused with Err ("no color table available for current frame"),
\* so both answers are kept
ReadNextFrame(gif, next) ==
    IF next > Len(gif.frames) THEN {"none"}
    ELSE IF gif.frames[next].corrupt THEN {"err"}
    ELSE IF ~gif.frames[next].palette.present /\ ~gif.global_palette.present
         THEN {"frame", "err"}
    ELSE {"frame"}

NoGif == [header_ok |-> TRUE, global_palette |-> NoPalette, frames |-> <<>>]

NoGifCall ==
    [pc |-> "idle", gif |-> NoGif, flavor |-> "latte", algorithm |-> "nearest-neighbor",
     next |-> 1, processed_frames |-> <<>>, result |-> "none", error |-> "none",
     output |-> <<>>, header_written |-> FALSE]

GifCalls ==
    { [pc |-> "open", gif |-> g, flavor |-> "latte", algorithm |-> "nearest-neighbor",
       next |-> 1, processed_frames |-> <<>>, result |-> "none", error |-> "none",
       output |-> <<>>, header_written |-> FALSE] : g \in Gifs }

\* return Err(why): no bytes are returned
GifErr(why) ==
    gifCall' = [gifCall EXCEPT !.pc = "done", !.result = "err", !.error = why]

\* GifDecoder::new (image_processing.rs:226-228)
Gif_Open ==
    /\ gifCall.pc = "open"
    /\ IF gifCall.gif.header_ok
       THEN gifCall' = [gifCall EXCEPT !.pc = "read"]
       ELSE GifErr("Failed to create GIF decoder")
    /\ UNCHANGED <<mainVars, cacheVars, cmdVars, lutCall, applyCall, imageVars, argVars, extraVars>>

\* one turn of the loop, first part (image_processing.rs:229-257): the frame
\* is read and converted to RGBA, and the LUT is asked for; `read` is the
\* answer of the decoder
Gif_Frame(read) ==
    /\ gifCall.pc = "read"
    /\ read \in ReadNextFrame(gifCall.gif, gifCall.next) \ {"none"}
    /\ IF read = "err"
       THEN /\ GifErr("Failed to read GIF frame")
            /\ UNCHANGED cacheVars
       ELSE IF Len(gifCall.gif.frames[gifCall.next].buffer)
                 < gifCall.gif.frames[gifCall.next].width
                     * gifCall.gif.frames[gifCall.next].height
       THEN /\ GifErr("Failed to convert GIF frame to RGBA image")
            /\ UNCHANGED cacheVars
       ELSE /\ gifCall' = [gifCall EXCEPT !.pc = "map"]
            /\ CallLut(MessageCaller, <<gifCall.flavor, gifCall.algorithm>>)
    /\ UNCHANGED <<mainVars, cmdVars, lutCall, applyCall, imageVars, argVars, extraVars>>

\* one turn of the loop, second part (image_processing.rs:258-261): the
\* frame is mapped with the LUT of the key, which is what the call returned,
\* and pushed
Gif_Map ==
    /\ gifCall.pc = "map"
    /\ UseLut(MessageCaller)
    /\ gifCall' = [gifCall EXCEPT
           !.pc = "read",
           !.processed_frames =
               Append(@, ProcessFrame(gifCall.gif.frames[gifCall.next],
                                      gifCall.gif.global_palette,
                                      gkey[MessageCaller][1], gkey[MessageCaller][2])),
           !.next = @ + 1]
    /\ UNCHANGED <<mainVars, cmdVars, lutCall, applyCall, imageVars, argVars, extraVars>>

\* the end of the stream and the encoding (image_processing.rs:263-273): the
\* frames written are those of processed_frames, in order, each with its
\* size and delay.  GifEncoder::new, which writes the header of the output,
\* is reached only when processed_frames has a first frame (line 265):
\* without frames `output` is returned as Vec::new() left it.  `enc` is the
\* answer of the encoder of the gif crate: every call succeeds, or
\* GifEncoder::new (266-267), set_repeat (268) or write_frame (269-270)
\* returns Err, which `?` returns from the function without any bytes
Gif_Encode(enc) ==
    /\ gifCall.pc = "read"
    /\ "none" \in ReadNextFrame(gifCall.gif, gifCall.next)
    /\ gifCall.processed_frames = <<>> => enc = "ok"
    /\ CASE enc = "new_failed"    -> GifErr("Failed to create GIF encoder")
         [] enc = "repeat_failed" -> GifErr("Failed to set GIF repeat")
         [] enc = "write_failed"  -> GifErr("Failed to write GIF frame")
         [] OTHER ->
              gifCall' = [gifCall EXCEPT !.pc = "done", !.result = "ok",
                     !.header_written = gifCall.processed_frames # <<>>,
                     !.output = [i \in 1..Len(gifCall.processed_frames) |->
                                   [width |-> gifCall.processed_frames[i].width,
                                    height |-> gifCall.processed_frames[i].height,
                                    delay |-> gifCall.processed_frames[i].delay]]]
    /\ UNCHANGED <<mainVars, cacheVars, cmdVars, lutCall, applyCall, imageVars, argVars, extraVars>>

\* ------------------------------------------------------------------------
\* image_processing.rs: create_comparison_image
\* ------------------------------------------------------------------------
MaxSide == 2

Max(a, b) == IF a >= b THEN a ELSE b

\* Rgba([240, 240, 240, 255]) (image_processing.rs:174)
ComparisonBackground == <<240, 240, 240, 255>>

\* image.get_pixel(x, y), the pixels being kept row by row
GetPixel(image, x, y) == image.pixels[y * image.width + x + 1]

\* variant: the processed image is placed right after the widest image,
\* without the margin
create_comparison_image_NoMargin(original, processed) ==
    LET max_width == Max(original.width, processed.width)
        max_height == Max(original.height, processed.height)
        margin == 20
        total_width == max_width * 2 + margin
        total_height == max_height
        filled == [i \in 1..(total_width * total_height) |-> ComparisonBackground]
        left == [i \in 1..(total_width * total_height) |->
                    IF (i - 1) % total_width < original.width
                          /\ (i - 1) \div total_width < original.height
                    THEN GetPixel(original, (i - 1) % total_width, (i - 1) \div total_width)
                    ELSE filled[i]]
        right == [i \in 1..(total_width * total_height) |->
                    IF (i - 1) % total_width >= max_width
                          /\ ((i - 1) % total_width) - max_width < processed.width
                          /\ (i - 1) \div total_width < processed.height
                    THEN GetPixel(processed, ((i - 1) % total_width) - max_width,
                                  (i - 1) \div total_width)
                    ELSE left[i]]
    IN [width |-> total_width, height |-> total_height, pixels |-> right]

\* create_comparison_image (image_processing.rs:163-188): the background
\* fill (172-176), the copy of the original (177-181) and the copy of the
\* processed image (182-186), each writing over the one before
create_comparison_image(original, processed) ==
    LET max_width == Max(original.width, processed.width)
        max_height == Max(original.height, processed.height)
        margin == 20
        total_width == max_width * 2 + margin
        total_height == max_height
        filled == [i \in 1..(total_width * total_height) |-> ComparisonBackground]
        left == [i \in 1..(total_width * total_height) |->
                    IF (i - 1) % total_width < original.width
                          /\ (i - 1) \div total_width < original.height
                    THEN GetPixel(original, (i - 1) % total_width, (i - 1) \div total_width)
                    ELSE filled[i]]
        right == [i \in 1..(total_width * total_height) |->
                    IF (i - 1) % total_width >= max_width + margin
                          /\ ((i - 1) % total_width) - (max_width + margin) < processed.width
                          /\ (i - 1) \div total_width < processed.height
                    THEN GetPixel(processed, ((i - 1) % total_width) - (max_width + margin),
                                  (i - 1) \div total_width)
                    ELSE left[i]]
    IN [width |-> total_width, height |-> total_height, pixels |-> right]

\* an image of w by h pixels, each pixel telling its own position
PositionImage(w, h, base, alpha) ==
    [width |-> w, height |-> h,
     pixels |-> [i \in 1..(w * h) |->
                   << base + ((i - 1) % w), base + 10 + ((i - 1) \div w), base + 20, alpha >>]]

NoCmpCall == [phase |-> "idle", original |-> NoImage, processed |-> NoImage, out |-> NoImage]

CmpCalls ==
    { [phase |-> "call", original |-> PositionImage(d[1], d[2], 10, 255),
       processed |-> PositionImage(d[3], d[4], 110, 200), out |-> NoImage]
      : d \in (0..MaxSide) \X (0..MaxSide) \X (0..MaxSide) \X (0..MaxSide) }

\* image_processing.rs:163-188
I_Compare ==
    /\ cmpCall.phase = "call"
    /\ cmpCall' = [cmpCall EXCEPT !.phase = "done",
                     !.out = create_comparison_image(cmpCall.original, cmpCall.processed)]
    /\ UNCHANGED <<mainVars, cacheVars, cmdVars, lutCall, applyCall, gifCall, previewCall, argVars, extraVars>>

\* ------------------------------------------------------------------------
\* palette.rs: generate_all_palettes_preview
\* ------------------------------------------------------------------------
\* flavors (palette.rs:46)
PreviewFlavors == <<"latte", "frappe", "macchiato", "mocha">>

\* the pixel at (x, y) after the loops of palette.rs:57-88 over an image
\* that RgbaImage::new leaves transparent black: the white label strip of
\* each flavor (77-81) and the 26 swatches below it (82-91)
PreviewAllPixel(x, y, swatch_size, margin, grid_cols, flavor_width) ==
    IF \E f \in 1..4, i \in 0..(PaletteSize - 1) :
          /\ x >= margin + (f - 1) * (flavor_width + margin) + margin
                     + (i % grid_cols) * (swatch_size + margin)
          /\ x < margin + (f - 1) * (flavor_width + margin) + margin
                     + (i % grid_cols) * (swatch_size + margin) + swatch_size
          /\ y >= 30 + margin + (i \div grid_cols) * (swatch_size + margin)
          /\ y < 30 + margin + (i \div grid_cols) * (swatch_size + margin) + swatch_size
    THEN LET fi == CHOOSE fi \in (1..4) \X (0..(PaletteSize - 1)) :
                     /\ x >= margin + (fi[1] - 1) * (flavor_width + margin) + margin
                                + (fi[2] % grid_cols) * (swatch_size + margin)
                     /\ x < margin + (fi[1] - 1) * (flavor_width + margin) + margin
                                + (fi[2] % grid_cols) * (swatch_size + margin) + swatch_size
                     /\ y >= 30 + margin + (fi[2] \div grid_cols) * (swatch_size + margin)
                     /\ y < 30 + margin + (fi[2] \div grid_cols) * (swatch_size + margin)
                                + swatch_size
         IN Append(PaletteRgb[PreviewFlavors[fi[1]]][fi[2] + 1], 255)
    ELSE IF \E f \in 1..4 :
               /\ x >= margin + (f - 1) * (flavor_width + margin)
               /\ x < margin + (f - 1) * (flavor_width + margin) + flavor_width
               /\ y < 30
         THEN <<255, 255, 255, 255>>
         ELSE <<0, 0, 0, 0>>

\* generate_all_palettes_preview (palette.rs:45-93): the size of the image
\* and its pixel at `probe`
generate_all_palettes_preview(probe) ==
    LET swatch_size == 40
        margin == 5
        grid_cols == 5
        grid_rows == 6
        flavor_width == grid_cols * swatch_size + (grid_cols + 1) * margin
        flavor_height == grid_rows * swatch_size + (grid_rows + 1) * margin + 30
        total_width == flavor_width * 4 + margin * 5
        total_height == flavor_height
    IN [width |-> total_width, height |-> total_height,
        pixel |-> PreviewAllPixel(probe[1], probe[2], swatch_size, margin, grid_cols,
                                  flavor_width)]

\* the pixels looked at: a corner, a label strip, the first swatch of Latte
\* and of Frappe, the last swatch of Mocha, the opposite corner
PreviewProbes ==
    { <<0, 0>>, <<5, 0>>, <<10, 35>>, <<245, 35>>, <<715, 260>>, <<944, 304>> }

NoPreviewCall ==
    [phase |-> "idle", probe |-> <<0, 0>>, width |-> 0, height |-> 0, pixel |-> <<0, 0, 0, 0>>]

PreviewCalls ==
    { [phase |-> "call", probe |-> q, width |-> 0, height |-> 0, pixel |-> <<0, 0, 0, 0>>]
      : q \in PreviewProbes }

\* palette.rs:45-93
P_PreviewAll ==
    /\ previewCall.phase = "call"
    /\ previewCall' =
          [previewCall EXCEPT !.phase = "done",
             !.width = generate_all_palettes_preview(previewCall.probe).width,
             !.height = generate_all_palettes_preview(previewCall.probe).height,
             !.pixel = generate_all_palettes_preview(previewCall.probe).pixel]
    /\ UNCHANGED <<mainVars, cacheVars, cmdVars, lutCall, applyCall, gifCall, cmpCall, argVars, extraVars>>

\* ------------------------------------------------------------------------
\* main.rs: Handler::message with PROCESSING_SEMAPHORE
\* ------------------------------------------------------------------------
NoJob == [kind |-> "none", mode |-> "none", encOk |-> TRUE]

\* The commands main.rs distinguishes after argument parsing (lines 886-1102).
MainJobs ==
    {[kind |-> "plain", mode |-> "none", encOk |-> TRUE]}
    \cup {[kind |-> k, mode |-> "none", encOk |-> e] : k \in {"palette"}, e \in BOOLEAN}
    \cup {[kind |-> "hex", mode |-> "none", encOk |-> TRUE]}
    \cup {[kind |-> "image", mode |-> m, encOk |-> e] :
            m \in {"single", "compare", "stats", "all", "batch"}, e \in BOOLEAN}

NoCtx == [notice |-> FALSE, flavorIdx |-> 0, attachments |-> 0, exit |-> "none"]

MainInit ==
    /\ permits = SemaphoreCapacity
    /\ waiters = <<>>
    /\ mpc = [h \in GateHandlers |-> "idle"]
    /\ mjob = [h \in GateHandlers |-> NoJob]
    /\ mlog = [h \in GateHandlers |-> <<>>]
    /\ mctx = [h \in GateHandlers |-> NoCtx]

\* tokio Semaphore::acquire as called at main.rs:947, 1040, 1104: the permit is
\* taken when one is available, otherwise the caller joins the FIFO wait queue.
SemAcquire(h) ==
    IF permits > 0
    THEN /\ permits' = permits - 1
         /\ waiters' = waiters
         /\ mpc' = [mpc EXCEPT ![h] = "admitted"]
    ELSE /\ permits' = permits
         /\ waiters' = Append(waiters, h)
         /\ mpc' = [mpc EXCEPT ![h] = "waiting"]

\* variant: the permit goes to the acquirer that was suspended last
DropPermit_AdmitsNewest(h, nextpc) ==
    IF waiters # <<>>
    THEN /\ permits' = permits
         /\ waiters' = SubSeq(waiters, 1, Len(waiters) - 1)
         /\ mpc' = [mpc EXCEPT ![h] = nextpc, ![waiters[Len(waiters)]] = "admitted"]
    ELSE /\ permits' = permits + 1
         /\ waiters' = waiters
         /\ mpc' = [mpc EXCEPT ![h] = nextpc]

\* Drop of the SemaphorePermit bound to _permit when its scope ends: the permit
\* goes to the first queued acquirer, or back to the semaphore.
DropPermit(h, nextpc) ==
    IF waiters # <<>>
    THEN /\ permits' = permits
         /\ waiters' = Tail(waiters)
         /\ mpc' = [mpc EXCEPT ![h] = nextpc, ![Head(waiters)] = "admitted"]
    ELSE /\ permits' = permits + 1
         /\ waiters' = waiters
         /\ mpc' = [mpc EXCEPT ![h] = nextpc]

\* variant: the permit is kept (forgotten) on the decode-failure return
ReturnWithPermit_LeakOnDecodeFailure(h, why) ==
    /\ IF why = "decode_failed"
       THEN /\ mpc' = [mpc EXCEPT ![h] = "done"]
            /\ UNCHANGED <<permits, waiters>>
       ELSE DropPermit(h, "done")
    /\ mctx' = [mctx EXCEPT ![h].exit = why]

\* return from a scope that owns _permit
ReturnWithPermit(h, why) ==
    /\ DropPermit(h, "done")
    /\ mctx' = [mctx EXCEPT ![h].exit = why]

\* A message arrives and is parsed (main.rs:877-941).
M_Receive(h, job) ==
    /\ mpc[h] = "idle"
    /\ mjob' = [mjob EXCEPT ![h] = job]
    /\ mpc' = [mpc EXCEPT ![h] = "parsed"]
    /\ UNCHANGED <<permits, waiters, mlog, mctx>>
    /\ UNCHANGED <<cacheVars, pureVars, cmdVars>>

\* Help, or a command with neither attachment nor colour argument
\* (main.rs:891-897, 1643-1651): no permit is requested.
M_Plain(h) ==
    /\ mpc[h] = "parsed"
    /\ mjob[h].kind = "plain"
    /\ mpc' = [mpc EXCEPT ![h] = "done"]
    /\ mctx' = [mctx EXCEPT ![h].exit = "plain"]
    /\ UNCHANGED <<permits, waiters, mjob, mlog>>
    /\ UNCHANGED <<cacheVars, pureVars, cmdVars>>

\* PROCESSING_SEMAPHORE.acquire().await (main.rs:947, 1040, 1104)
M_Acquire(h) ==
    /\ mpc[h] = "parsed"
    /\ mjob[h].kind \in {"palette", "hex", "image"}
    /\ SemAcquire(h)
    /\ UNCHANGED <<mjob, mlog, mctx>>
    /\ UNCHANGED <<cacheVars, pureVars, cmdVars>>

\* available_permits() == 0 => "queued" notice (main.rs:950-955, 1043-1048, 1107-1112)
M_QueueNotice(h) ==
    /\ mpc[h] = "admitted"
    /\ mctx' = [mctx EXCEPT ![h].notice = (permits = 0)]
    /\ mpc' = [mpc EXCEPT ![h] =
                 CASE mjob[h].kind = "palette" -> "palette"
                   [] mjob[h].kind = "hex"     -> "hex"
                   [] OTHER                    -> "content_check"]
    /\ UNCHANGED <<permits, waiters, mjob, mlog>>
    /\ UNCHANGED <<cacheVars, pureVars, cmdVars>>

\* !cat palette all | <flavor> | <other> (main.rs:957-1014)
M_Palette(h) ==
    /\ mpc[h] = "palette"
    /\ \E arg \in {"all", "flavor", "invalid"} :
         ReturnWithPermit(h,
            IF arg = "invalid" THEN "palette_invalid"
            ELSE IF mjob[h].encOk THEN "palette_preview" ELSE "palette_encode_failed")
    /\ UNCHANGED <<mjob, mlog>>
    /\ UNCHANGED <<cacheVars, pureVars, cmdVars>>

\* hex colour conversion (main.rs:1050-1097)
M_Hex(h) ==
    /\ mpc[h] = "hex"
    /\ \E valid \in BOOLEAN :
         ReturnWithPermit(h, IF valid THEN "hex_converted" ELSE "invalid_hex")
    /\ UNCHANGED <<mjob, mlog>>
    /\ UNCHANGED <<cacheVars, pureVars, cmdVars>>

\* content type check and batch dispatch (main.rs:1115-1125)
M_ContentCheck(h) ==
    /\ mpc[h] = "content_check"
    /\ \E isImage \in BOOLEAN :
         IF ~isImage
         THEN ReturnWithPermit(h, "non_image")
         ELSE /\ mpc' = [mpc EXCEPT ![h] =
                           IF mjob[h].mode = "batch" THEN "batch" ELSE "fetch"]
              /\ UNCHANGED <<permits, waiters, mctx>>
    /\ UNCHANGED <<mjob, mlog>>
    /\ UNCHANGED <<cacheVars, pureVars, cmdVars>>

\* batch processing loop (main.rs:1125-1256); a failing image is skipped
M_Batch(h) ==
    /\ mpc[h] = "batch"
    /\ \E n \in 0..2 :
         /\ ReturnWithPermit(h, "batch")
         /\ mlog' = [mlog EXCEPT ![h] = IF n > 0 THEN <<"deliver">> ELSE <<>>]
    /\ UNCHANGED <<mjob>>
    /\ UNCHANGED <<cacheVars, pureVars, cmdVars>>

\* download of the attachment (main.rs:1275-1299)
M_Fetch(h) ==
    /\ mpc[h] = "fetch"
    /\ \E ok \in BOOLEAN :
         IF ok
         THEN /\ mlog' = [mlog EXCEPT ![h] = Append(@, "fetch")]
              /\ mpc' = [mpc EXCEPT ![h] = "decode"]
              /\ UNCHANGED <<permits, waiters, mctx>>
         ELSE /\ mlog' = [mlog EXCEPT ![h] = Append(@, "fetch_failed")]
              /\ ReturnWithPermit(h, "download_failed")
    /\ UNCHANGED <<mjob>>
    /\ UNCHANGED <<cacheVars, pureVars, cmdVars>>

\* decode and conversion to RGBA (main.rs:1314-1345)
M_Decode(h) ==
    /\ mpc[h] = "decode"
    /\ \E ok \in BOOLEAN :
         IF ok
         THEN /\ mlog' = [mlog EXCEPT ![h] = Append(@, "decode")]
              /\ mpc' = [mpc EXCEPT ![h] =
                           IF mjob[h].mode = "stats" THEN "stats" ELSE "map"]
              /\ mctx' = [mctx EXCEPT ![h].flavorIdx =
                           IF mjob[h].mode = "all" THEN 1 ELSE 0]
              /\ UNCHANGED <<permits, waiters>>
         ELSE /\ mlog' = [mlog EXCEPT ![h] = Append(@, "decode_failed")]
              /\ ReturnWithPermit(h, "decode_failed")
    /\ UNCHANGED <<mjob>>
    /\ UNCHANGED <<cacheVars, pureVars, cmdVars>>

\* colour statistics (main.rs:1348-1367)
M_Stats(h) ==
    /\ mpc[h] = "stats"
    /\ ReturnWithPermit(h, "stats")
    /\ UNCHANGED <<mjob, mlog>>
    /\ UNCHANGED <<cacheVars, pureVars, cmdVars>>

\* generate_catppuccin_lut + apply_lut_to_image (main.rs:1414-1417, 1495-1498)
M_Map(h) ==
    /\ mpc[h] = "map"
    /\ mlog' = [mlog EXCEPT ![h] = Append(@, "map")]
    /\ mpc' = [mpc EXCEPT ![h] = "encode"]
    /\ UNCHANGED <<permits, waiters, mjob, mctx>>
    /\ UNCHANGED <<cacheVars, pureVars, cmdVars>>

\* write_to of the mapped image.
\*   single  (main.rs:1591-1600): failure returns
\*   compare (main.rs:1521-1527): failure returns
\*   all     (main.rs:1439-1445): failure logs and continues with the next flavor
M_Encode(h) ==
    /\ mpc[h] = "encode"
    /\ IF mjob[h].mode = "all"
       THEN /\ mlog' = [mlog EXCEPT ![h] =
                          Append(@, IF mjob[h].encOk THEN "encode" ELSE "encode_failed")]
            /\ mctx' = [mctx EXCEPT
                          ![h].attachments = IF mjob[h].encOk THEN @ + 1 ELSE @,
                          ![h].flavorIdx = @ + 1]
            /\ mpc' = [mpc EXCEPT ![h] =
                          IF mctx[h].flavorIdx < NumFlavors THEN "map" ELSE "deliver"]
            /\ UNCHANGED <<permits, waiters>>
       ELSE IF mjob[h].encOk
            THEN /\ mlog' = [mlog EXCEPT ![h] = Append(@, "encode")]
                 /\ mpc' = [mpc EXCEPT ![h] = "deliver"]
                 /\ UNCHANGED <<permits, waiters, mctx>>
            ELSE /\ mlog' = [mlog EXCEPT ![h] = Append(@, "encode_failed")]
                 /\ ReturnWithPermit(h,
                       IF mjob[h].mode = "compare" THEN "comparison_encode_failed"
                       ELSE "encode_failed")
    /\ UNCHANGED <<mjob>>
    /\ UNCHANGED <<cacheVars, pureVars, cmdVars>>

\* send_files of the encoded image(s), then the end of the permit's scope
\* (main.rs:1465-1477, 1554-1557, 1634-1642)
M_Deliver(h) ==
    /\ mpc[h] = "deliver"
    /\ mlog' = [mlog EXCEPT ![h] =
                  IF mjob[h].mode = "all" /\ mctx[h].attachments = 0
                  THEN @ ELSE Append(@, "deliver")]
    /\ ReturnWithPermit(h,
          CASE mjob[h].mode = "all"     -> "all_flavors"
            [] mjob[h].mode = "compare" -> "comparison"
            [] OTHER                    -> "success")
    /\ UNCHANGED <<mjob>>
    /\ UNCHANGED <<cacheVars, pureVars, cmdVars>>

\* the handler invocation is over; the slot serves the next message
M_Finish(h) ==
    /\ mpc[h] = "done"
    /\ mpc' = [mpc EXCEPT ![h] = "idle"]
    /\ mjob' = [mjob EXCEPT ![h] = NoJob]
    /\ mlog' = [mlog EXCEPT ![h] = <<>>]
    /\ mctx' = [mctx EXCEPT ![h] = NoCtx]
    /\ UNCHANGED <<permits, waiters>>
    /\ UNCHANGED <<cacheVars, pureVars, cmdVars>>

MainNext ==
    \/ \E h \in Handlers, job \in MainJobs : M_Receive(h, job)
    \/ \E h \in Handlers : M_Plain(h)
    \/ \E h \in Handlers : M_Acquire(h)
    \/ \E h \in Handlers : M_QueueNotice(h)
    \/ \E h \in Handlers : M_Palette(h)
    \/ \E h \in Handlers : M_Hex(h)
    \/ \E h \in Handlers : M_ContentCheck(h)
    \/ \E h \in Handlers : M_Batch(h)
    \/ \E h \in Handlers : M_Fetch(h)
    \/ \E h \in Handlers : M_Decode(h)
    \/ \E h \in Handlers : M_Stats(h)
    \/ \E h \in Handlers : M_Map(h)
    \/ \E h \in Handlers : M_Encode(h)
    \/ \E h \in Handlers : M_Deliver(h)
    \/ \E h \in Handlers : M_Finish(h)

ImageIdle ==
    /\ cmpCall = NoCmpCall /\ previewCall = NoPreviewCall
    /\ argReq = NoArgReq /\ argCount = 0 /\ confirmMap = [k \in {} |-> NoConfirm]
    /\ confirmPress = NoPress
    /\ UtilIdle /\ QueueInit

PureIdle ==
    lutCall = NoLutCall /\ applyCall = NoApplyCall /\ gifCall = NoGifCall /\ ImageIdle

Init == MainInit /\ CacheInit /\ PureIdle /\ CmdInit

SpecMain == Init /\ [][MainNext]_vars

\* ------------------------------------------------------------------------
\* The other specifications
\* ------------------------------------------------------------------------
LutNext == L_Entry

InitLut ==
    /\ MainInit /\ CacheInit /\ CmdInit
    /\ lutCall \in LutCalls /\ applyCall = NoApplyCall /\ gifCall = NoGifCall
    /\ ImageIdle

SpecLut == InitLut /\ [][LutNext]_vars

ApplyNext == A_Apply \/ A_ApplyAgain

InitApply ==
    /\ MainInit /\ CacheInit /\ CmdInit
    /\ lutCall = NoLutCall /\ applyCall \in ApplyCalls /\ gifCall = NoGifCall
    /\ ImageIdle

SpecApply == InitApply /\ [][ApplyNext]_vars

GifNext ==
    \/ Gif_Open
    \/ \E read \in {"frame", "err"} : Gif_Frame(read)
    \/ G_Lookup(MessageCaller)
    \/ G_Build(MessageCaller)
    \/ G_Insert(MessageCaller)
    \/ Gif_Map
    \/ \E enc \in {"ok", "new_failed", "repeat_failed", "write_failed"} : Gif_Encode(enc)

InitGif ==
    /\ MainInit /\ CacheInit /\ CmdInit
    /\ lutCall = NoLutCall /\ applyCall = NoApplyCall /\ gifCall \in GifCalls
    /\ ImageIdle

SpecGif == InitGif /\ [][GifNext]_vars

ImageNext == I_Compare \/ P_PreviewAll

InitImage ==
    /\ MainInit /\ CacheInit /\ CmdInit
    /\ lutCall = NoLutCall /\ applyCall = NoApplyCall /\ gifCall = NoGifCall
    /\ cmpCall \in CmpCalls /\ previewCall \in PreviewCalls
    /\ argReq = NoArgReq /\ argCount = 0 /\ confirmMap = [k \in {} |-> NoConfirm]
    /\ confirmPress = NoPress
    /\ UtilIdle /\ QueueInit

SpecImage == InitImage /\ [][ImageNext]_vars

\* messages of every kind from one user in one channel, and that user's
\* presses of the button
KeysNext ==
    \/ \E args \in ArgLists, n \in 0..2 : R_Message(args, n)
    \/ R_Abandon
    \/ R_Batch
    \/ R_BatchSkip
    \/ \E f \in Flavors : R_Stats(<<1, 1>>, f)
    \/ R_AllFlavors
    \/ R_Single
    \/ \E c \in {MessageCaller, ButtonCaller} : G_Lookup(c)
    \/ \E c \in {MessageCaller, ButtonCaller} : G_Build(c)
    \/ \E c \in {MessageCaller, ButtonCaller} : G_Insert(c)
    \/ R_Mapped
    \/ R_Send
    \/ <<1, 1>> \in DOMAIN confirmMap /\ R_Confirm(<<1, 1>>)
    \/ R_ConfirmRespond
    \/ R_ConfirmSend

SpecKeys == Init /\ [][KeysNext]_vars

\* stats messages and presses of the button, by any user in any channel
ConfirmNext ==
    \/ \E args \in StatsArgLists : R_Message(args, 1)
    \/ R_Abandon
    \/ \E slot \in ConfirmSlots, f \in Flavors : R_Stats(slot, f)
    \/ R_Send
    \/ \E slot \in ConfirmSlots : R_Confirm(slot)
    \/ G_Lookup(ButtonCaller)
    \/ G_Build(ButtonCaller)
    \/ G_Insert(ButtonCaller)
    \/ R_ConfirmRespond
    \/ R_ConfirmSend
    \/ R_ConfirmNone

SpecConfirm == Init /\ [][ConfirmNext]_vars

\* the commands with which the gate is exercised: a colour conversion and
\* the mapping of one image
GateJobs ==
    { [kind |-> "hex", mode |-> "none", encOk |-> TRUE],
      [kind |-> "image", mode |-> "single", encOk |-> TRUE] }

\* a step of a handler that holds the permit
HolderStep(h) ==
    \/ M_QueueNotice(h)
    \/ M_Hex(h)
    \/ M_ContentCheck(h)
    \/ M_Fetch(h)
    \/ M_Decode(h)
    \/ M_Map(h)
    \/ M_Encode(h)
    \/ M_Deliver(h)

GateNext ==
    \/ \E h \in GateHandlers, job \in GateJobs : M_Receive(h, job)
    \/ \E h \in GateHandlers : M_Acquire(h)
    \/ \E h \in GateHandlers : M_QueueNotice(h)
    \/ \E h \in GateHandlers : M_Hex(h)
    \/ \E h \in GateHandlers : M_ContentCheck(h)
    \/ \E h \in GateHandlers : M_Fetch(h)
    \/ \E h \in GateHandlers : M_Decode(h)
    \/ \E h \in GateHandlers : M_Map(h)
    \/ \E h \in GateHandlers : M_Encode(h)
    \/ \E h \in GateHandlers : M_Deliver(h)
    \/ \E h \in GateHandlers : M_Finish(h)

\* every handler that holds the permit goes on until it returns: the tokio
\* runtime polls a task that is ready; messages arrive or not
SpecGate ==
    /\ Init /\ [][GateNext]_vars
    /\ \A h \in GateHandlers : WF_vars(HolderStep(h))

UtilsNext == U_ParseAlgorithm \/ U_Sanitize

InitUtils ==
    /\ MainInit /\ CacheInit /\ CmdInit
    /\ lutCall = NoLutCall /\ applyCall = NoApplyCall /\ gifCall = NoGifCall
    /\ cmpCall = NoCmpCall /\ previewCall = NoPreviewCall
    /\ argReq = NoArgReq /\ argCount = 0 /\ confirmMap = [k \in {} |-> NoConfirm]
    /\ confirmPress = NoPress
    /\ QueueInit /\ confirmStat = NoConfirmStat
    /\ \/ parseCall \in ParseCalls /\ sanitizeCall = NoSanitizeCall
       \/ parseCall = NoParseCall /\ sanitizeCall \in SanitizeCalls

SpecUtils == InitUtils /\ [][UtilsNext]_vars

QueueNext ==
    \/ \E c \in Enqueuers, kind \in TaskKinds : Q_TakeId(c, kind)
    \/ \E c \in Enqueuers : Q_Send(c)
    \/ \E c \in Enqueuers : Q_GetLength(c)
    \/ Q_Receive
    \/ Q_Push
    \/ Q_QueuedLength
    \/ Q_Dispatch
    \/ Q_Spawn
    \/ Q_FlagReset
    \/ \E t \in qRunning : Q_Complete(t)
    \/ Q_Tick

SpecQueue == Init /\ [][QueueNext]_vars

CacheNext ==
    \/ \E c \in Callers, key \in CallKeys : G_Call(c, key)
    \/ \E c \in Callers : G_Lookup(c)
    \/ \E c \in Callers : G_Build(c)
    \/ \E c \in Callers : G_Insert(c)
    \/ \E c \in Callers : G_Drop(c)

SpecCache == Init /\ [][CacheNext]_vars

CmdNext ==
    \/ \E u \in Users, cmd \in CmdCommands : K_Receive(u, cmd)
    \/ \E u \in Users, isImage \in BOOLEAN : K_ContentCheck(u, isImage)
    \/ \E u \in Users, ok \in BOOLEAN : K_Fetch(u, ok)
    \/ \E u \in Users, ok \in BOOLEAN : K_Decode(u, ok)
    \/ \E u \in Users, ok \in BOOLEAN, f \in Flavors : K_Stats(u, ok, f)
    \/ \E u \in Users : K_StatsReply(u)
    \/ \E u \in Users : K_AllFlavors(u)
    \/ \E u \in Users, ok \in BOOLEAN : K_AllEncode(u, ok)
    \/ \E u \in Users : K_AllSend(u)
    \/ \E u \in Users : K_Map(u)
    \/ \E u \in Users : G_Lookup(u)
    \/ \E u \in Users : G_Build(u)
    \/ \E u \in Users : G_Insert(u)
    \/ \E u \in Users, ok \in BOOLEAN : K_Encode(u, ok)
    \/ \E u \in Users : K_Deliver(u)
    \/ \E u \in Users : K_Cancel(u)

SpecCmd == Init /\ [][CmdNext]_vars

\* ------------------------------------------------------------------------
\* Properties of the job gate and of the main.rs pipeline
\* ------------------------------------------------------------------------
\* a handler invocation that owns a SemaphorePermit
Holding(h) == mpc[h] \notin {"idle", "parsed", "waiting", "done"}

InFlight == Cardinality({h \in Handlers : Holding(h)})

IsFailure(e) == e \in {"fetch_failed", "decode_failed", "encode_failed"}

\* C3 (as stated): the gate has capacity 2: a handler waits only while 2 jobs
\* hold a permit, and never more than 2 jobs hold one.
C3_GateCapacityTwo ==
    /\ InFlight <= 2
    /\ \A h \in Handlers : mpc[h] = "waiting" => InFlight = 2

\* C3 (amended): the gate has capacity 1: a handler is suspended exactly while
\* one job holds the permit, a request made while no job holds it is admitted
\* without waiting, and never more than one job holds the permit.
C3_GateCapacityOne ==
    /\ InFlight <= 1
    /\ permits + InFlight = 1
    /\ \A h \in Handlers : mpc[h] = "waiting" => InFlight = 1
    /\ (InFlight = 0 => waiters = <<>>)

C3_Witness ==
    \E h, g \in Handlers : mpc[h] = "waiting" /\ Holding(g) /\ mpc[g] = "decode"

\* C4: once every admitted handler has returned, the available permits equal
\* the initial capacity, whichever exit path each handler took.
C4_PermitsRestored ==
    (\A h \in Handlers : ~Holding(h) /\ mpc[h] # "waiting")
        => permits = SemaphoreCapacity

C4_Witness ==
    /\ \A h \in Handlers : mpc[h] = "done"
    /\ \E h, g \in Handlers :
         /\ mctx[h].exit = "decode_failed"
         /\ mctx[g].exit = "invalid_hex"

\* C25: a handler is told that its request is queued only when, at that
\* moment, other handlers are waiting for the permit.
C25_NoticeOnlyWhenOthersWait ==
    [][ \A h \in Handlers :
          (~mctx[h].notice /\ mctx'[h].notice) => waiters # <<>> ]_vars

\* C27: a handler suspended at the acquisition of the permit is admitted in
\* the end, provided the handlers that hold the permit go on until they
\* return; the handler admitted from the queue is the one that has waited
\* longest, also when a second handler waits behind it.
C27_WaitersAdmittedInOrder ==
    /\ \A h \in GateHandlers : (mpc[h] = "waiting") ~> (mpc[h] = "admitted")
    /\ [][ \A h \in GateHandlers :
              (mpc[h] = "waiting" /\ mpc'[h] = "admitted") => h = Head(waiters) ]_vars

\* two handlers are suspended, one behind the other, while the holder of the
\* permit is about to deliver its image and return
C27_Witness ==
    \E h, k, g \in GateHandlers :
        /\ h # k /\ waiters = <<h, k>>
        /\ mpc[h] = "waiting" /\ mpc[k] = "waiting"
        /\ mpc[g] = "deliver" /\ mjob[g].kind = "image"

\* C6: the stages of one image job run in the order fetch, decode, map,
\* encode, and a failed stage is the last stage the job runs.
C6_StagesSequentialFailFast ==
    \A h \in Handlers :
        mjob[h].mode \in {"single", "compare", "stats", "all"} =>
            \A i \in 1..Len(mlog[h]) :
                /\ (IsFailure(mlog[h][i]) => i = Len(mlog[h]))
                /\ (mlog[h][i] \in {"decode", "decode_failed"} =>
                        i = 2 /\ mlog[h][1] = "fetch")
                /\ (mlog[h][i] = "map" =>
                        i > 2 /\ mlog[h][i - 1] \in {"decode", "encode", "encode_failed"})
                /\ (mlog[h][i] \in {"encode", "encode_failed"} =>
                        i > 1 /\ mlog[h][i - 1] = "map")
                /\ (mlog[h][i] = "deliver" =>
                        i > 1 /\ mlog[h][i - 1] \in {"encode", "encode_failed"})

\* ------------------------------------------------------------------------
\* Properties of the LUT cache (SpecCache)
\* ------------------------------------------------------------------------
\* C1: when several callers ask concurrently for a key that is not yet in the
\* cache, the build runs at most once for that key.
C1_BuildAtMostOnce ==
    \A k \in CallKeys : builds[k] <= 1

\* C2: under any interleaving, every call returns the LUT of its own key, so
\* two calls with the same key return identical LUTs and no call returns a
\* LUT built or cached for another key; every cache entry is the LUT of its key.
C2_SameKeySameLut ==
    /\ \A c \in Callers :
          gpc[c] = "returned" =>
              /\ glut[c].flavor = gkey[c][1]
              /\ glut[c].algorithm = gkey[c][2]
              /\ glut[c].len = LutLen
              /\ DOMAIN glut[c].cells = CacheCells
              /\ gkey[c] \in DOMAIN lutCache
              /\ glut[c] = lutCache[gkey[c]]
    /\ \A c, d \in Callers :
          gpc[c] = "returned" /\ gpc[d] = "returned" /\ gkey[c] = gkey[d]
             => glut[c] = glut[d]
    /\ \A k \in DOMAIN lutCache :
          lutCache[k].flavor = k[1] /\ lutCache[k].algorithm = k[2]

\* two callers hold the LUT of the same key, one of them from the cache,
\* while the cache also holds a LUT of the same flavor under another key
C2_Witness ==
    \E c, d \in Callers :
        /\ c # d
        /\ gpc[c] = "returned" /\ gpc[d] = "returned"
        /\ gkey[c] = gkey[d]
        /\ builds[gkey[c]] = 1
        /\ \E k \in DOMAIN lutCache : k # gkey[c] /\ k[1] = gkey[c][1]

\* ------------------------------------------------------------------------
\* Properties of the commands.rs pipeline (SpecCmd)
\* ------------------------------------------------------------------------
\* C5: a job whose user asked for cancellation before the job began its
\* transform ends with the outcome "cancelled" and delivers no image.
C5_CancelledBeforeCheckpoint ==
    \A u \in Users :
        cmdCancel[u].early /\ cmdJob[u].pc = "done"
           => cmdJob[u].outcome = "cancelled" /\ cmdJob[u].images = 0

\* ------------------------------------------------------------------------
\* Properties of apply_lut_to_image (SpecApply)
\* ------------------------------------------------------------------------
\* C7: with a LUT of 256*256*256*3 bytes, every pixel (R,G,B,A) gets as its
\* new RGB the three LUT bytes at offset (R*65536 + G*256 + B)*3: the index
\* found through the float round trip is that offset, it is within the LUT,
\* and the bytes survive the round trip back to u8.
C7_DirectIndexing ==
    applyCall.phase = "done" =>
        \A i \in 1..Len(applyCall.img.pixels) :
            LET p == applyCall.img.pixels[i]
                q == applyCall.out.pixels[i]
                off == (p[1] * 65536 + p[2] * 256 + p[3]) * 3
            IN /\ SampleIdx(F32Div255(p[1]), F32Div255(p[2]), F32Div255(p[3])) = off
               /\ off + 2 < applyCall.lut.len
               /\ q[1] = LutAt(applyCall.lut, off)
               /\ q[2] = LutAt(applyCall.lut, off + 1)
               /\ q[3] = LutAt(applyCall.lut, off + 2)

\* a full-size LUT has been applied and has changed the colour of a pixel
C7_Witness ==
    /\ applyCall.phase = "done"
    /\ applyCall.lut.len = 256 * 256 * 256 * 3
    /\ \E i \in 1..Len(applyCall.img.pixels) :
          /\ applyCall.img.pixels[i][2] = 200
          /\ SubSeq(applyCall.out.pixels[i], 1, 3) # SubSeq(applyCall.img.pixels[i], 1, 3)

\* C8: apply_lut_to_image keeps the width and the height, the number of
\* pixels and every alpha byte, and the pixel at each position is the
\* mapping of the input pixel at that same position.
C8_AlphaPositionDims ==
    applyCall.phase = "done" =>
        /\ applyCall.out.width = applyCall.img.width
        /\ applyCall.out.height = applyCall.img.height
        /\ Len(applyCall.out.pixels) = Len(applyCall.img.pixels)
        /\ \A i \in 1..Len(applyCall.img.pixels) :
              LET p == applyCall.img.pixels[i]
                  q == applyCall.out.pixels[i]
              IN /\ q[4] = p[4]
                 /\ <<q[1], q[2], q[3]>> = applyCall.lut.cells[<<p[1], p[2], p[3]>>]

\* an image of two rows and two columns whose pixels differ in colour and in
\* alpha, two of them fully transparent, has been mapped
C8_Witness ==
    /\ applyCall.phase = "done"
    /\ applyCall.img.width = 2 /\ applyCall.img.height = 2
    /\ applyCall.img.pixels[1][4] = 0
    /\ applyCall.img.pixels[2][4] = 128
    /\ applyCall.img.pixels[3][4] = 128
    /\ applyCall.img.pixels[4][4] = 0
    /\ applyCall.out.pixels[2] # applyCall.img.pixels[2]

\* C11: with the LUT of a nearest-family algorithm, mapping the mapped image
\* a second time with the same LUT changes no pixel.
C11_NearestIdempotent ==
    applyCall.phase = "again" /\ applyCall.lut.algorithm \in NearestAlgorithms
        => applyCall.again = applyCall.out

\* an image of several pixels whose first mapping changed a colour has been
\* mapped a second time
C11_Witness ==
    /\ applyCall.phase = "again"
    /\ applyCall.lut.algorithm = "linear-rbf"
    /\ Len(applyCall.img.pixels) >= 2
    /\ \E i \in 1..Len(applyCall.img.pixels) :
          SubSeq(applyCall.out.pixels[i], 1, 3) # SubSeq(applyCall.img.pixels[i], 1, 3)
    /\ applyCall.again = applyCall.out

\* ------------------------------------------------------------------------
\* Properties of the LUT entries (SpecLut)
\* ------------------------------------------------------------------------
\* C9: for linear-rbf, nearest-neighbor and euclide the entry is the palette
\* colour at minimum squared Lab distance from the input, and among several
\* at that distance the first in palette order.
C9_NearestFirstWins ==
    lutCall.phase = "done" /\ lutCall.algorithm \in NearestAlgorithms =>
        LET d == PaletteDistances(lutCall.flavor, lutCall.rgb)
        IN \E i \in 1..PaletteSize :
              /\ lutCall.entry = PaletteRgb[lutCall.flavor][i]
              /\ \A j \in 1..PaletteSize : d[i] <= d[j]
              /\ \A j \in 1..(i - 1) : d[j] > d[i]

\* an entry has been computed for an input with two nearest palette colours
C9_Witness ==
    /\ lutCall.phase = "done"
    /\ lutCall.algorithm \in NearestAlgorithms
    /\ LET d == PaletteDistances(lutCall.flavor, lutCall.rgb)
       IN \E i, j \in 1..PaletteSize :
             /\ i < j
             /\ d[i] = d[j]
             /\ \A k \in 1..PaletteSize : d[i] <= d[k]
             /\ lutCall.entry = PaletteRgb[lutCall.flavor][i]

\* C10: for every flavor and nearest-family algorithm, an input that equals
\* the RGB of a colour of the flavor's palette is mapped to itself.
C10_PaletteFixedPoint ==
    /\ lutCall.phase = "done"
    /\ lutCall.algorithm \in NearestAlgorithms
    /\ \E i \in 1..PaletteSize : lutCall.rgb = PaletteRgb[lutCall.flavor][i]
    => lutCall.entry = lutCall.rgb

\* the entry for the first colour of a palette (rosewater) has been computed
C10_Witness ==
    /\ lutCall.phase = "done"
    /\ lutCall.algorithm = "euclide"
    /\ lutCall.rgb = PaletteRgb[lutCall.flavor][1]
    /\ lutCall.entry = PaletteRgb[lutCall.flavor][1]

\* the weights of the palette colours for distances dists
WeightsOf(dists, power10) == Weights(dists, SeqMin(dists, 1), power10)

PaletteWeights(flavor, rgb, power10) ==
    WeightsOf(PaletteDistances(flavor, rgb), power10)

\* weighted_r, weighted_g or weighted_b (image_processing.rs:79-81)
ChannelSum(flavor, weights, c) ==
    WeightedSum(weights, [i \in 1..PaletteSize |-> PaletteRgb[flavor][i][c]], 1)

\* total_weight (image_processing.rs:82)
TotalWeight(weights) == WeightedSum(weights, [i \in 1..PaletteSize |-> 1], 1)

\* a / b rounded to the nearest integer
RoundDiv(a, b) == (2 * a + b) \div (2 * b)

\* the blend with every channel rounded to the nearest integer
RoundedBlend(flavor, weights) ==
    [c \in 1..3 |->
        ClampByte(RoundDiv(ChannelSum(flavor, weights, c), TotalWeight(weights)))]

\* C12: for the weighted-blend family each channel of an entry is the
\* weight-normalised sum of the palette colours' channel values, rounded to
\* the nearest integer and clamped to 0..255.
C12_WeightedRounded ==
    lutCall.phase = "done" /\ lutCall.weighted =>
        lutCall.entry =
            RoundedBlend(lutCall.flavor,
                         PaletteWeights(lutCall.flavor, lutCall.rgb, lutCall.power10))

\* a / b within one of v
WithinOne(a, b) == a - b <= 1 /\ b - a <= 1

\* the claim of C13 for the palette colour i and the weights w
ExactColourDominates(call, i, dists, w) ==
    /\ dists[i] = 0
    /\ w[i] = 32768
    /\ \A j \in 1..PaletteSize : dists[j] > 0 => w[j] < w[i]
    /\ \A c \in 1..3 : WithinOne(call.entry[c], PaletteRgb[call.flavor][i][c])

\* C13: for every flavor and weighted-blend algorithm, an input equal to a
\* palette colour is at distance 0 from it, that colour gets the large
\* weight, which exceeds every other weight, and the entry differs from the
\* colour by at most 1 in each channel.
C13_ExactColourWithinOne ==
    lutCall.phase = "done" /\ lutCall.weighted =>
        \A i \in 1..PaletteSize :
            lutCall.rgb = PaletteRgb[lutCall.flavor][i] =>
                ExactColourDominates(lutCall, i,
                    PaletteDistances(lutCall.flavor, lutCall.rgb),
                    PaletteWeights(lutCall.flavor, lutCall.rgb, lutCall.power10))

\* the entry at Latte's base colour has been blended with power 2.5, and its
\* red channel came out one below the colour's
C13_Witness ==
    /\ lutCall.phase = "done"
    /\ lutCall.algorithm = "gaussian-sampling"
    /\ lutCall.flavor = "latte"
    /\ lutCall.rgb = PaletteRgb["latte"][24]
    /\ lutCall.entry[1] = lutCall.rgb[1] - 1
    /\ lutCall.entry[2] = lutCall.rgb[2]

\* (power * 10, weighted) by algorithm name, as C14 lists them
ListedParams(algorithm) ==
    CASE algorithm = "shepards-method"   -> <<20, TRUE>>
      [] algorithm = "gaussian-rbf"      -> <<15, TRUE>>
      [] algorithm = "linear-rbf"        -> <<10, FALSE>>
      [] algorithm = "gaussian-sampling" -> <<25, TRUE>>
      [] algorithm = "nearest-neighbor"  -> <<10, FALSE>>
      [] algorithm = "hald"              -> <<20, TRUE>>
      [] algorithm = "euclide"           -> <<10, FALSE>>
      [] algorithm = "mean"              -> <<15, TRUE>>
      [] algorithm = "std"               -> <<20, TRUE>>
      [] OTHER                           -> <<20, TRUE>>

\* the entries the listed parameters give
ListedEntries(flavor, rgb, params) ==
    IF params[2]
    THEN { WeightedColor(flavor, rgb, params[1]) }
    ELSE { PaletteRgb[flavor][NearestIndex(flavor, rgb)] }

\* C14: the builder uses the power and the family listed for the algorithm
\* name, and shepards-method's (2.0, weighted) for any other name; the entry
\* it computes is the one those parameters give.
C14_ParamsByName ==
    lutCall.phase = "done" =>
        /\ <<lutCall.power10, lutCall.weighted>> = ListedParams(lutCall.algorithm)
        /\ lutCall.entry \in ListedEntries(lutCall.flavor, lutCall.rgb,
                                            ListedParams(lutCall.algorithm))

\* an entry has been computed under a name that is none of the nine, and it
\* is the blend shepards-method gives, which is not a palette colour
C14_Witness ==
    /\ lutCall.phase = "done"
    /\ lutCall.algorithm = "lanczos"
    /\ lutCall.weighted /\ lutCall.power10 = 20
    /\ lutCall.rgb = <<79, 146, 150>>
    /\ lutCall.entry = LutEntry(lutCall.flavor, "shepards-method", lutCall.rgb)
    /\ lutCall.entry # PaletteRgb[lutCall.flavor][NearestIndex(lutCall.flavor, lutCall.rgb)]

\* ------------------------------------------------------------------------
\* Properties of process_gif_with_palette (SpecGif)
\* ------------------------------------------------------------------------
\* C15: when the call returns Ok, the output has as many frames as the
\* input, in the same order, and the i-th output frame has the size and the
\* delay of the i-th input frame.
C15_FramesAndDelays ==
    gifCall.pc = "done" /\ gifCall.result = "ok" =>
        /\ Len(gifCall.output) = Len(gifCall.gif.frames)
        /\ \A i \in 1..Len(gifCall.output) :
              /\ gifCall.output[i].delay = gifCall.gif.frames[i].delay
              /\ gifCall.output[i].width = gifCall.gif.frames[i].width
              /\ gifCall.output[i].height = gifCall.gif.frames[i].height

\* a GIF of two frames of different sizes and delays has been transformed
C15_Witness ==
    /\ gifCall.pc = "done" /\ gifCall.result = "ok"
    /\ Len(gifCall.output) = 2
    /\ gifCall.output[1].delay = 7 /\ gifCall.output[2].delay = 3
    /\ gifCall.output[1].width = 2 /\ gifCall.output[2].width = 1

\* the colour C16 gives the index idx of a frame
ResolvedColour(idx, frame, global_palette) ==
    IF frame.palette.present
    THEN IndexRgba(idx, frame.palette)
    ELSE IF global_palette.present
         THEN IndexRgba(idx, global_palette)
         ELSE << idx, idx, idx, 255 >>

C17_DecodeFailureIsFatal ==
    gifCall.pc = "done"
      /\ (~gifCall.gif.header_ok
            \/ \E i \in 1..Len(gifCall.gif.frames) : gifCall.gif.frames[i].corrupt)
      => /\ gifCall.result = "err"
         /\ gifCall.output = <<>>
         /\ gifCall.error \in {"Failed to create GIF decoder", "Failed to read GIF frame"}

\* the second frame of a stream could not be read after the first had been
\* transformed
C17_Witness ==
    /\ gifCall.pc = "done" /\ gifCall.result = "err"
    /\ Len(gifCall.processed_frames) = 1
    /\ gifCall.error = "Failed to read GIF frame"
    /\ gifCall.output = <<>>

\* C23: a call that returns Ok returns the bytes of a GIF, which begin with
\* the header the encoder writes: never an empty vector.
C23_OkOutputNotEmpty ==
    gifCall.pc = "done" /\ gifCall.result = "ok" => gifCall.header_written

\* C30: in every processed frame there are as many RGBA pixels as indices in
\* the frame's buffer, every one of them has alpha 255 before and after the
\* mapping, the transparent index of the frame included, and an index
\* beyond the end of the resolved palette gives opaque black; such an index
\* does not make the call fail.
C30_OpaqueAndInRange ==
    /\ \A i \in 1..Len(gifCall.processed_frames) :
          /\ Len(gifCall.processed_frames[i].rgba) = Len(gifCall.gif.frames[i].buffer)
          /\ Len(gifCall.processed_frames[i].pixels) = Len(gifCall.gif.frames[i].buffer)
          /\ \A k \in 1..Len(gifCall.gif.frames[i].buffer) :
                /\ gifCall.processed_frames[i].rgba[k][4] = 255
                /\ gifCall.processed_frames[i].pixels[k][4] = 255
                /\ (ResolvePalette(gifCall.gif.frames[i], gifCall.gif.global_palette).present
                      /\ gifCall.gif.frames[i].buffer[k] * 3 + 2
                            >= Len(ResolvePalette(gifCall.gif.frames[i],
                                                  gifCall.gif.global_palette).bytes))
                     => gifCall.processed_frames[i].rgba[k] = <<0, 0, 0, 255>>
    /\ gifCall.error # "Failed to convert GIF frame to RGBA image"

\* a frame whose only pixel is its transparent index 2, beyond the end of
\* its two-colour palette, has been processed: the pixel is opaque black
C30_Witness ==
    /\ gifCall.pc = "done" /\ gifCall.result = "ok"
    /\ Len(gifCall.processed_frames) = 2
    /\ gifCall.gif.frames[2].transparent = 2
    /\ gifCall.gif.frames[2].buffer = <<2>>
    /\ gifCall.processed_frames[2].rgba = << <<0, 0, 0, 255>> >>
    /\ gifCall.gif.frames[1].transparent = 0
    /\ gifCall.processed_frames[1].rgba[1][4] = 255

\* ------------------------------------------------------------------------
\* Properties of the comparison image and of the palette preview (SpecImage)
\* ------------------------------------------------------------------------
\* the pixel C19 puts at (x, y)
ComparisonPixel(original, processed, x, y) ==
    IF x < original.width /\ y < original.height
    THEN GetPixel(original, x, y)
    ELSE IF x >= Max(original.width, processed.width) + 20
              /\ x - (Max(original.width, processed.width) + 20) < processed.width
              /\ y < processed.height
         THEN GetPixel(processed, x - (Max(original.width, processed.width) + 20), y)
         ELSE <<240, 240, 240, 255>>

\* C19: the comparison of an original of w1 x h1 and a processed image of
\* w2 x h2 is 2*max(w1,w2)+20 wide and max(h1,h2) high; it shows the original
\* from (0,0), the processed image from (max(w1,w2)+20, 0), and the
\* background (240,240,240,255) everywhere else.
C19_ComparisonLayout ==
    cmpCall.phase = "done" =>
        /\ cmpCall.out.width = 2 * Max(cmpCall.original.width, cmpCall.processed.width) + 20
        /\ cmpCall.out.height = Max(cmpCall.original.height, cmpCall.processed.height)
        /\ Len(cmpCall.out.pixels) = cmpCall.out.width * cmpCall.out.height
        /\ \A x \in 0..(cmpCall.out.width - 1), y \in 0..(cmpCall.out.height - 1) :
              GetPixel(cmpCall.out, x, y)
                  = ComparisonPixel(cmpCall.original, cmpCall.processed, x, y)

\* a 1 x 2 original has been set beside a 2 x 1 processed image: the result
\* is 24 x 2, with background below the processed image
C19_Witness ==
    /\ cmpCall.phase = "done"
    /\ cmpCall.original.width = 1 /\ cmpCall.original.height = 2
    /\ cmpCall.processed.width = 2 /\ cmpCall.processed.height = 1
    /\ cmpCall.out.width = 24 /\ cmpCall.out.height = 2
    /\ GetPixel(cmpCall.out, 0, 1) = <<10, 21, 30, 255>>
    /\ GetPixel(cmpCall.out, 23, 0) = <<111, 120, 130, 200>>
    /\ GetPixel(cmpCall.out, 23, 1) = <<240, 240, 240, 255>>

\* C20: the preview of all palettes is 765 pixels wide and 755 pixels high.
C20_PreviewAllDimensions ==
    previewCall.phase = "done" =>
        previewCall.width = 765 /\ previewCall.height = 755

\* ------------------------------------------------------------------------
\* Properties of the LUT cache keys (SpecKeys)
\* ------------------------------------------------------------------------
\* the nine algorithm names
CanonicalAlgorithms ==
    {"shepards-method", "gaussian-rbf", "linear-rbf", "gaussian-sampling",
     "nearest-neighbor", "hald", "euclide", "mean", "std"}

\* C18: whatever messages and button presses have been handled, every key of
\* the LUT cache is one of the four flavors with one of the nine canonical
\* algorithm names, so the cache holds at most 36 entries.
C18_CacheKeysCanonical ==
    /\ DOMAIN lutCache \subseteq Flavors \X CanonicalAlgorithms
    /\ Cardinality(DOMAIN lutCache) <= 36

\* `Mocha NN` has been handled: the alias and the capitals are gone from the
\* key, which is (mocha, nearest-neighbor)
C18_Witness ==
    /\ argReq.pc = "done"
    /\ argReq.args = <<"Mocha", "NN">>
    /\ argReq.attachments = 1
    /\ <<"mocha", "nearest-neighbor">> \in DOMAIN lutCache
    /\ argCount = MaxRequests

\* ------------------------------------------------------------------------
\* Properties of parse_algorithm and sanitize_filename (SpecUtils)
\* ------------------------------------------------------------------------
\* the canonical name the list of aliases gives a lowercase word, or None
ListedAlias(w) ==
    IF w \in {"shepards", "shepards-method", "shepard"} THEN "shepards-method"
    ELSE IF w \in {"gaussian", "gaussian-rbf", "rbf"} THEN "gaussian-rbf"
    ELSE IF w \in {"linear", "linear-rbf"} THEN "linear-rbf"
    ELSE IF w \in {"sampling", "gaussian-sampling", "gauss"} THEN "gaussian-sampling"
    ELSE IF w \in {"nearest", "nearest-neighbor", "nn"} THEN "nearest-neighbor"
    ELSE IF w \in {"hald", "euclide", "mean", "std"} THEN w
    ELSE None

\* C21: parse_algorithm gives every listed alias, in whatever case it is
\* written, its canonical name, and None to every other word; a name it
\* returns is one of the nine names with an entry of their own in the
\* parameter table of the LUT builder.
C21_AliasesCanonical ==
    parseCall.phase = "done" =>
        /\ parseCall.out = ListedAlias(ToLowercase(parseCall.input))
        /\ parseCall.out # None => parseCall.out \in CanonicalAlgorithms

\* `Gaussian-Rbf` has been parsed and came out as gaussian-rbf
C21_Witness ==
    /\ parseCall.phase = "done"
    /\ parseCall.input = "Gaussian-Rbf"
    /\ parseCall.out = "gaussian-rbf"

\* C26: the name sanitize_filename returns is at most 64 characters long,
\* the extension it may have appended included.
C26_NameAtMost64 ==
    sanitizeCall.phase = "done" => Len(sanitizeCall.out) <= 64

\* ------------------------------------------------------------------------
\* Properties of the handling of arguments (SpecKeys)
\* ------------------------------------------------------------------------
\* the algorithm a quality word stands for, None for any other word
LevelAlgorithm(w) ==
    IF ToLowercase(w) = "fast" THEN "nearest-neighbor"
    ELSE IF ToLowercase(w) = "normal" THEN "shepards-method"
    ELSE IF ToLowercase(w) = "high" THEN "gaussian-sampling"
    ELSE None

\* the quality word of a command: the first argument, or the second one
\* after a flavor; None when there is none
QualityWord(args) ==
    IF Len(args) >= 1 /\ LevelAlgorithm(args[1]) # None THEN args[1]
    ELSE IF Len(args) >= 2
              /\ ToLowercase(args[1]) \in {"latte", "frappe", "macchiato", "mocha"}
              /\ LevelAlgorithm(args[2]) # None
         THEN args[2]
         ELSE None

\* C22: a command with a quality word, first or after a flavor, has its image
\* mapped with the LUT of the algorithm that quality stands for.
C22_QualitySelectsAlgorithm ==
    (argReq.pc = "done" /\ QualityWord(argReq.args) # None) =>
        \A i \in 1..Len(argReq.lut) :
            argReq.lut[i][2] = LevelAlgorithm(QualityWord(argReq.args))

\* what one press of the button by `slot` does at the map, from a state to
\* the next
PressEffect(slot) ==
    /\ confirmPress'.slot = slot
    /\ IF slot \in DOMAIN confirmMap
       THEN /\ confirmPress'.entry = confirmMap[slot]
            /\ DOMAIN confirmMap' = DOMAIN confirmMap \ {slot}
            /\ \A k \in DOMAIN confirmMap' : confirmMap'[k] = confirmMap[k]
       ELSE /\ confirmPress'.entry = NoConfirm
            /\ confirmMap' = confirmMap

\* the images of `slot` still to come: the entry stored in the map and the
\* entry a press has taken and not yet sent
Pending(map, press, slot) ==
    (IF slot \in DOMAIN map THEN 1 ELSE 0)
      + (IF press.slot = slot /\ press.entry # NoConfirm THEN 1 ELSE 0)

\* C29: a press of the button by a user in a channel with an entry stored
\* removes that entry alone and goes on to send its image; a press without
\* an entry for that user and channel takes nothing and leaves the map as it
\* is, whatever other entries it holds; an image is sent only by the press
\* that took an entry, once; so the images sent and still to come for a user
\* and channel never outnumber the stats messages stored for them.
C29_ConfirmationAppliedOnce ==
    [][ /\ \A slot \in ConfirmSlots :
             confirmStat'[slot].clicks = confirmStat[slot].clicks + 1 => PressEffect(slot)
        /\ \A slot \in ConfirmSlots :
             confirmStat'[slot].images # confirmStat[slot].images =>
                 /\ confirmStat'[slot].images = confirmStat[slot].images + 1
                 /\ confirmPress.slot = slot /\ confirmPress.entry # NoConfirm
                 /\ confirmPress' = NoPress
        /\ \A slot \in ConfirmSlots :
             confirmStat'[slot].images + Pending(confirmMap', confirmPress', slot)
                 <= confirmStat'[slot].stores ]_vars

\* one stats message stored for (1, 1), then two presses there: one image,
\* and the entry is gone
C29_Witness ==
    /\ confirmStat[<<1, 1>>] = [stores |-> 1, clicks |-> 2, images |-> 1]
    /\ <<1, 1>> \notin DOMAIN confirmMap
    /\ confirmPress = NoPress

\* ------------------------------------------------------------------------
\* Properties of the TaskQueue (SpecQueue)
\* ------------------------------------------------------------------------
\* C24: at most one task taken from the queue is inside process_task.
C24_OneTaskAtATime == Cardinality(qRunning) <= 1

\* C28: a task the processor holds, queued or running, has the id its caller
\* was given by enqueue.
C28_IdReturnedIsIdStored ==
    \A i \in 1..Len(qQueue) :
        qCaller[qQueue[i].caller].pc \in {"returned", "asked"}
            => qQueue[i].id = qCaller[qQueue[i].caller].id

====
